---- MODULE Spec2Model ----
(***************************************************************************)
(* Tenant isolation layer (FahrenHQ/fahren): Redis key-prefix / ACL        *)
(* strategies, Postgres RLS / Schema / Database strategies and their       *)
(* PgBouncer-aware variants.                                               *)
(*                                                                         *)
(* The module holds several specifications, one per part of the program:  *)
(*   SpecRedis  Redis Prefix and ACL strategies                            *)
(*   SpecRls    Postgres row level security and its shared pool            *)
(*   SpecProv   Postgres Schema / Database createTenant and deleteTenant   *)
(*   SpecPgb    getClientFor / queryAs of the PgBouncer Tenants classes    *)
(*   SpecPools  the pool map of a Tenants instance: lazy creation, end     *)
(*   SpecMode   the pooling mode a tenant's calls read, descriptor updates *)
(*   SpecPgbDb  createTenant / deleteTenant of PgBouncerDatabaseManagement *)
(*   SpecRedisDelete    RedisAclManagement.deleteTenant, step by step      *)
(*   SpecRedisCommands  the command rules createTenant gives ACL users     *)
(*   SpecRlsSetup  PostgresRlsManagement.setup and deleteTenant            *)
(*   SpecRlsAuto   PostgresRlsManagement.createTenant with autoSetup       *)
(*   SpecPath      secret paths: getPattern and getPath                    *)
(*   SpecSecrets   TenantsSecretsManager store / update / remove / get     *)
(*   SpecLookup    getClientFor with a missing or malformed descriptor     *)
(*   SpecDbNames   Database createTenant: names and partial provisioning   *)
(*   SpecEnds      end() of Management and Tenants objects, pool identity  *)
(*   SpecRedisCreate  RedisAclManagement.createTenant called repeatedly    *)
(*   SpecRelease   the client of queryAs / withClientFor, until release    *)
(*   SpecFailures  createTenant / deleteTenant failing at a step           *)
(*   SpecSchemaSettings  role and search_path of a Schema Tenants client   *)
(*   SpecDescriptorMode  the poolMode PgBouncer Database descriptors carry *)
(* Every specification constrains all variables; the variables of the      *)
(* parts it does not exercise stay at their initial value.                 *)
(***************************************************************************)
EXTENDS Integers, Sequences, FiniteSets, TLC

VARIABLES
    \* ---- Redis (packages/redis) ----
    redisKeys,      \* the server keyspace: physical key -> tenant id that wrote it
    redisAcl,       \* ACL users of the server: username -> key pattern prefix
    redisSecrets,   \* secret store: tenant id -> stored descriptor
    redisLast,      \* the last GET a tenant client made: reader, result
    redisOps,       \* number of writes made so far (bounds the model)
    \* ---- Postgres RLS (strategies/rls, pgbouncer/strategies/rls) ----
    rlsVariant,     \* "plain" (PostgresRlsTenants) or the PgBouncerRlsTenants poolMode
    rlsRole,        \* whether the shared role tenant_role exists
    rlsEnabled,     \* whether row level security is enabled on the table
    rlsPolicies,    \* the policies on the table
    rlsRows,        \* the table: rows [id, tenant]
    rlsConn,        \* the connections of the shared pool
    rlsLast,        \* the last statement a tenant client ran
    \* ---- Postgres Schema / Database provisioning (strategies/schema, database) ----
    provStrategy,   \* "schema" or "database"
    provForce,      \* options.deprovision.database.useForceOnDelete
    pgSchemas,      \* names of the schemas that exist on the server
    pgDatabases,    \* names of the databases that exist on the server
    pgRoles,        \* names of the login roles that exist on the server
    provSecrets,    \* secret store: tenant id -> stored descriptor
    provData,       \* tenant id -> what the tenant's schema / database holds
    provOpen,       \* tenants whose pool holds connections to their database
    provSeq,        \* tenant id -> progress through create, write, delete, create
    \* ---- PgBouncer Tenants (pgbouncer/strategies/rls, schema, database) ----
    pgbStrategy,    \* "rls", "schema" or "database"
    pgbMode,        \* poolConfig.poolMode / the descriptor's poolMode
    pgbConn,        \* the connections of the tenant's pool
    pgbCall,        \* the getClientFor / queryAs calls in flight
    pgbCommitted,   \* the committed writes (each call writes its own mark)
    \* ---- the pools of a Tenants instance ----
    tpVariant,      \* which Tenants class the instance is
    tpPools,        \* every Pool the instance created, in order: [tenant, ended]
    tpMap,          \* this.pools: tenant id -> index of its pool, 0 when absent
    tpCall,         \* the getClientFor calls in flight
    tpCreated,      \* tenant id -> pools created since the last end(tenantId)
    tpSequential,   \* no two getClientFor calls have overlapped so far
    tpAfterEnd,     \* end() has just completed
    \* ---- pooling mode of a tenant in PgBouncerSchemaTenants / PgBouncerDatabaseTenants ----
    pmDescriptor,   \* the poolMode in the tenant's stored descriptor
    pmPoolsMode,    \* this.poolsMode.get(tenantId), Null while unset
    pmCall,         \* the queryAs calls for the tenant
    \* ---- PgBouncer Database management (SpecPgbDb) ----
    pdLast,         \* the last createTenant / deleteTenant call on a PgBouncerDatabaseManagement and its outcome
    \* ---- Redis ACL management: deleteTenant and command rules (SpecRedisAcl) ----
    raDelete,       \* the deleteTenant call in progress
    raRules,        \* ACL user -> the command rules ACL SETUSER gave it
    raProvisionedWith,\* tenant id -> enableDangerousCommands of the instance that provisioned it
    raLast,         \* the last KEYS / FLUSHALL / FLUSHDB a tenant client sent
    \* ---- PostgresRlsManagement: setup, createTenant, deleteTenant (SpecRlsSetup, SpecRlsAuto) ----
    rmRole,         \* the shared tenant role exists
    rmCatalog,      \* table -> grants to the role, RLS enabled, policies
    rmRows,         \* rows of the tables: [table, tenant]
    rmLast,         \* the last call on the management and its outcome
    rmAutoSetup,    \* this.options.provision.autoSetup
    rmCall,         \* createTenant call -> its position and discovered tables
    rmPasses,       \* auto-setup passes (discovery followed by setup) run so far
    \* ---- secret paths (SpecPath) ----
    spIn,           \* two (tenant id, resource id) pairs and the kind of resource
    spOut,          \* the paths computed for them
    \* ---- TenantsSecretsManager over a secret store (SpecSecrets) ----
    smProvider,     \* the secret provider: local file or Vault
    smStore,        \* path -> the stored (parsed) value
    smLast,         \* the last call on the manager and its outcome
    \* ---- descriptor lookup of getClientFor / queryAs (SpecLookup) ----
    gdVariant,      \* which Tenants class the instance is
    gdStore,        \* secret store: tenant id -> the stored text, empty when absent
    gdPools,        \* this.pools has an entry for the tenant
    gdLast,         \* the last call and its outcome
    \* ---- PostgresDatabaseManagement / Tenants: names and partial provisioning (SpecDbNames) ----
    dcPrefix,       \* this.options.provision.database.prefix
    dcDatabases,    \* names of the databases on the server
    dcRoles,        \* names of the login roles on the server
    dcSecrets,      \* secret store: tenant id -> stored descriptor
    dcPoolDb,       \* tenant id -> database its pool in this.pools is bound to, empty when no pool
    dcAdminOut,     \* clients of the administrative pool that are checked out
    dcLast,         \* the last call and its outcome
    \* ---- end() of a Management and a Tenants object of one resource (SpecEnds) ----
    enVariant,      \* the isolation strategy of the two objects
    enObjs,         \* every Pool / Redis client the two objects created: [ended]
    enAdmin,        \* Management: index of this.pool / this.adminRedis
    enShared,       \* PostgresRlsTenants: index of this.pool, 0 for the other classes
    enMap,          \* Tenants: this.pools, tenant id -> index of its pool, 0 when absent
    enLast,         \* the last call and its outcome
    \* ---- RedisAclManagement.createTenant called again for a tenant (SpecRedisCreate) ----
    rcProvider,     \* the secrets provider: local file or Vault
    rcUsers,        \* ACL users of the server: tenant id -> [passwords, dangerous]
    rcSecrets,      \* secret store: tenant id -> stored descriptor
    rcNext,         \* the next generated password
    rcLast,         \* the last call and its outcome
    \* ---- release of the client in queryAs / withClientFor (SpecRelease) ----
    crVariant,      \* which Postgres Tenants class the instance is
    crMode,         \* the PgBouncer pooling mode, none for the plain classes
    crClient,       \* the pooled client: checked out, released while not checked out
    crCall,         \* the queryAs / withClientFor call
    \* ---- createTenant / deleteTenant failing at a step (SpecFailures) ----
    fpStrategy,     \* Schema, Database or Redis ACL Management
    fpExists,       \* tenant id -> the resources of the tenant the server holds
    fpStored,       \* tenant ids with a descriptor in the secret store
    fpLast,         \* the last call, where it failed, what held before it
    \* ---- the settings of a Schema Tenants client (SpecSchemaSettings) ----
    ssVariant,      \* PostgresSchemaTenants (plain) or PgBouncerSchemaTenants
    ssMode,         \* poolMode of the Management's pool config, none for plain
    ssStore,        \* tenant id -> the stored descriptor
    ssConn,         \* tenant id -> the connection of the tenant's pool
    ssLast,         \* the last getClientFor call
    \* ---- the pooling mode in Database descriptors (SpecDescriptorMode) ----
    dmStore,        \* tenant id -> poolMode of the stored descriptor, absent without one
    dmLast          \* the last call, its mode or branch and its error

redisVars == <<redisKeys, redisAcl, redisSecrets, redisLast, redisOps>>
rlsVars == <<rlsVariant, rlsRole, rlsEnabled, rlsPolicies, rlsRows, rlsConn, rlsLast>>

provVars == <<provStrategy, provForce, pgSchemas, pgDatabases, pgRoles, provSecrets,
              provData, provOpen, provSeq>>

pgbVars == <<pgbStrategy, pgbMode, pgbConn, pgbCall, pgbCommitted>>

tpVars == <<tpVariant, tpPools, tpMap, tpCall, tpCreated, tpSequential, tpAfterEnd>>

pmVars == <<pmDescriptor, pmPoolsMode, pmCall>>

pdVars == <<pdLast>>

raVars == <<raDelete, raRules, raProvisionedWith, raLast>>

rmVars == <<rmRole, rmCatalog, rmRows, rmLast, rmAutoSetup, rmCall, rmPasses>>

spVars == <<spIn, spOut>>

smVars == <<smProvider, smStore, smLast>>

gdVars == <<gdVariant, gdStore, gdPools, gdLast>>

dcVars == <<dcPrefix, dcDatabases, dcRoles, dcSecrets, dcPoolDb, dcAdminOut, dcLast>>

enVars == <<enVariant, enObjs, enAdmin, enShared, enMap, enLast>>

rcVars == <<rcProvider, rcUsers, rcSecrets, rcNext, rcLast>>

crVars == <<crVariant, crMode, crClient, crCall>>

fpVars == <<fpStrategy, fpExists, fpStored, fpLast>>

ssVars == <<ssVariant, ssMode, ssStore, ssConn, ssLast>>

dmVars == <<dmStore, dmLast>>

vars == <<redisVars, rlsVars, provVars, pgbVars, tpVars, pmVars, pdVars, raVars, rmVars, spVars, smVars, gdVars, dcVars, enVars, rcVars, crVars, fpVars, ssVars, dmVars>>

\* what an action of one part leaves alone: the variables of the other parts
notRedis == <<rlsVars, provVars, pgbVars, tpVars, pmVars, pdVars, raVars, rmVars, spVars, smVars, gdVars, dcVars, enVars, rcVars, crVars, fpVars, ssVars, dmVars>>
notRls == <<redisVars, provVars, pgbVars, tpVars, pmVars, pdVars, raVars, rmVars, spVars, smVars, gdVars, dcVars, enVars, rcVars, crVars, fpVars, ssVars, dmVars>>
notProv == <<redisVars, rlsVars, pgbVars, tpVars, pmVars, pdVars, raVars, rmVars, spVars, smVars, gdVars, dcVars, enVars, rcVars, crVars, fpVars, ssVars, dmVars>>
notPgb == <<redisVars, rlsVars, provVars, tpVars, pmVars, pdVars, raVars, rmVars, spVars, smVars, gdVars, dcVars, enVars, rcVars, crVars, fpVars, ssVars, dmVars>>
notTp == <<redisVars, rlsVars, provVars, pgbVars, pmVars, pdVars, raVars, rmVars, spVars, smVars, gdVars, dcVars, enVars, rcVars, crVars, fpVars, ssVars, dmVars>>
notPm == <<redisVars, rlsVars, provVars, pgbVars, tpVars, pdVars, raVars, rmVars, spVars, smVars, gdVars, dcVars, enVars, rcVars, crVars, fpVars, ssVars, dmVars>>
notPd == <<redisVars, rlsVars, provVars, pgbVars, tpVars, pmVars, raVars, rmVars, spVars, smVars, gdVars, dcVars, enVars, rcVars, crVars, fpVars, ssVars, dmVars>>
notProvPd == <<redisVars, rlsVars, pgbVars, tpVars, pmVars, raVars, rmVars, spVars, smVars, gdVars, dcVars, enVars, rcVars, crVars, fpVars, ssVars, dmVars>>
notRa == <<redisVars, rlsVars, provVars, pgbVars, tpVars, pmVars, pdVars, rmVars, spVars, smVars, gdVars, dcVars, enVars, rcVars, crVars, fpVars, ssVars, dmVars>>
notRedisRa == <<rlsVars, provVars, pgbVars, tpVars, pmVars, pdVars, rmVars, spVars, smVars, gdVars, dcVars, enVars, rcVars, crVars, fpVars, ssVars, dmVars>>
notRm == <<redisVars, rlsVars, provVars, pgbVars, tpVars, pmVars, pdVars, raVars, spVars, smVars, gdVars, dcVars, enVars, rcVars, crVars, fpVars, ssVars, dmVars>>
notSp == <<redisVars, rlsVars, provVars, pgbVars, tpVars, pmVars, pdVars, raVars, rmVars, smVars, gdVars, dcVars, enVars, rcVars, crVars, fpVars, ssVars, dmVars>>
notSm == <<redisVars, rlsVars, provVars, pgbVars, tpVars, pmVars, pdVars, raVars, rmVars, spVars, gdVars, dcVars, enVars, rcVars, crVars, fpVars, ssVars, dmVars>>
notGd == <<redisVars, rlsVars, provVars, pgbVars, tpVars, pmVars, pdVars, raVars, rmVars, spVars, smVars, dcVars, enVars, rcVars, crVars, fpVars, ssVars, dmVars>>
notDc == <<redisVars, rlsVars, provVars, pgbVars, tpVars, pmVars, pdVars, raVars, rmVars, spVars, smVars, gdVars, enVars, rcVars, crVars, fpVars, ssVars, dmVars>>
notEn == <<redisVars, rlsVars, provVars, pgbVars, tpVars, pmVars, pdVars, raVars, rmVars, spVars, smVars, gdVars, dcVars, rcVars, crVars, fpVars, ssVars, dmVars>>
notRc == <<redisVars, rlsVars, provVars, pgbVars, tpVars, pmVars, pdVars, raVars, rmVars, spVars, smVars, gdVars, dcVars, enVars, crVars, fpVars, ssVars, dmVars>>
notCr == <<redisVars, rlsVars, provVars, pgbVars, tpVars, pmVars, pdVars, raVars, rmVars, spVars, smVars, gdVars, dcVars, enVars, rcVars, fpVars, ssVars, dmVars>>
notFp == <<redisVars, rlsVars, provVars, pgbVars, tpVars, pmVars, pdVars, raVars, rmVars, spVars, smVars, gdVars, dcVars, enVars, rcVars, crVars, ssVars, dmVars>>
notSs == <<redisVars, rlsVars, provVars, pgbVars, tpVars, pmVars, pdVars, raVars, rmVars, spVars, smVars, gdVars, dcVars, enVars, rcVars, crVars, fpVars, dmVars>>
notDm == <<redisVars, rlsVars, provVars, pgbVars, tpVars, pmVars, pdVars, raVars, rmVars, spVars, smVars, gdVars, dcVars, enVars, rcVars, crVars, fpVars, ssVars>>

Null == "null"

(***************************************************************************)
(* Strings are sequences of characters.                                   *)
(***************************************************************************)
MaxRedisOps == 2

\* Tenant ids are opaque strings; ":" is a character like any other.
\* "a", "b" and "a:b" are three distinct tenants; "k" and "b:k" two keys.
RedisTenantIds == {<<"a">>, <<"b">>, <<"a", ":", "b">>}
RedisUserKeys == {<<"k">>, <<"b", ":", "k">>}

\* GET of a missing key returns null; no tenant id is the empty string here
RedisNil == <<>>

IsPrefixOf(p, s) == Len(p) <= Len(s) /\ SubSeq(s, 1, Len(p)) = p

\* `tenant:${tenantId}:` (config.keyPrefix is cleared by the constructor)
TenantLiteral == <<"t", "e", "n", "a", "n", "t", ":">>
buildKeyspacePrefix(tenantId) == TenantLiteral \o tenantId \o <<":">>

\* ioredis prepends the client's keyPrefix to every key it sends
PhysicalKey(keyPrefix, key) == keyPrefix \o key

DEFAULT_ACL_USERNAME == <<"tenant_acl">>

\* the server lets a user touch a key iff the key matches the user's pattern
\* `~<prefix>*`
AclPermits(user, pk) == user \in DOMAIN redisAcl /\ IsPrefixOf(redisAcl[user], pk)

MapPut(f, k, v) == [x \in DOMAIN f \cup {k} |-> IF x = k THEN v ELSE f[x]]
EmptyMap == [x \in {} |-> Null]

RedisInit ==
    /\ redisKeys = EmptyMap
    /\ redisAcl = EmptyMap
    /\ redisSecrets = EmptyMap
    /\ redisLast = [strategy |-> Null, reader |-> RedisNil, result |-> RedisNil]
    /\ redisOps = 0

\* RedisPrefixManagement.setup: one shared user restricted to tenant:*
RedisPrefixSetup ==
    /\ DEFAULT_ACL_USERNAME \notin DOMAIN redisAcl
    /\ redisAcl' = MapPut(redisAcl, DEFAULT_ACL_USERNAME, TenantLiteral)
    /\ UNCHANGED <<redisKeys, redisSecrets, redisLast, redisOps>>
    /\ UNCHANGED notRedis

\* RedisAclManagement.createTenant: ACL SETUSER tenantId ~tenant:<id>:* and
\* the descriptor {username, keyPrefix} stored
RedisAclCreateEffect(tenantId) ==
    /\ tenantId \notin DOMAIN redisSecrets
    /\ redisAcl' = MapPut(redisAcl, tenantId, buildKeyspacePrefix(tenantId))
    /\ redisSecrets' = MapPut(redisSecrets, tenantId,
                              [username |-> tenantId,
                               keyPrefix |-> buildKeyspacePrefix(tenantId)])
    /\ UNCHANGED <<redisKeys, redisLast, redisOps>>

RedisAclCreateTenant(tenantId) ==
    /\ RedisAclCreateEffect(tenantId)
    /\ UNCHANGED notRedis

\* The client RedisPrefixTenants.getClientFor(tenantId) returns
PrefixClient(tenantId) ==
    [username |-> DEFAULT_ACL_USERNAME, keyPrefix |-> buildKeyspacePrefix(tenantId)]

\* The client RedisAclTenants.getClientFor(tenantId) returns (from the secret)
AclClient(tenantId) == redisSecrets[tenantId]

ClientSet(client, writer, key) ==
    LET pk == PhysicalKey(client.keyPrefix, key) IN
    /\ redisOps < MaxRedisOps
    /\ AclPermits(client.username, pk)
    /\ redisKeys' = MapPut(redisKeys, pk, writer)
    /\ redisOps' = redisOps + 1
    /\ UNCHANGED <<redisAcl, redisSecrets, redisLast>>
    /\ UNCHANGED notRedis

ClientGet(client, strategy, reader, key) ==
    LET pk == PhysicalKey(client.keyPrefix, key) IN
    /\ AclPermits(client.username, pk)
    /\ redisLast' = [strategy |-> strategy, reader |-> reader,
                     result |-> IF pk \in DOMAIN redisKeys THEN redisKeys[pk] ELSE RedisNil]
    /\ UNCHANGED <<redisKeys, redisAcl, redisSecrets, redisOps>>
    /\ UNCHANGED notRedis

RedisPrefixSet(tenantId, key) == ClientSet(PrefixClient(tenantId), tenantId, key)
RedisPrefixGet(tenantId, key) == ClientGet(PrefixClient(tenantId), "prefix", tenantId, key)

RedisAclSet(tenantId, key) ==
    /\ tenantId \in DOMAIN redisSecrets
    /\ ClientSet(AclClient(tenantId), tenantId, key)

RedisAclGet(tenantId, key) ==
    /\ tenantId \in DOMAIN redisSecrets
    /\ ClientGet(AclClient(tenantId), "acl", tenantId, key)

RedisStep ==
    \/ RedisPrefixSetup
    \/ \E t \in RedisTenantIds : RedisAclCreateTenant(t)
    \/ \E t \in RedisTenantIds, k \in RedisUserKeys : RedisPrefixSet(t, k)
    \/ \E t \in RedisTenantIds, k \in RedisUserKeys : RedisPrefixGet(t, k)
    \/ \E t \in RedisTenantIds, k \in RedisUserKeys : RedisAclSet(t, k)
    \/ \E t \in RedisTenantIds, k \in RedisUserKeys : RedisAclGet(t, k)

(***************************************************************************)
(* Postgres row level security: PostgresRlsManagement.setup, the shared    *)
(* pool of PostgresRlsTenants / PgBouncerRlsTenants, and the statements a  *)
(* tenant client runs against one table carrying the tenant-id column.     *)
(***************************************************************************)
MaxRlsRows == 2

RlsTenants == {"t1", "t2"}
RlsConns == {"c1", "c2"}
RlsVariants == {"plain", "session_mode", "transaction_mode"}
RlsStmts == {"SELECT", "INSERT", "UPDATE", "UPDATE_TENANT", "DELETE"}

DEFAULT_ROLE == "tenant_role"
AdminRole == "admin"

\* the two policies createPoliciesOverTable creates: tenant_isolation has no
\* FOR clause (it applies to every command) and no WITH CHECK (its USING
\* expression is then also the check); tenant_insert is FOR INSERT WITH CHECK.
\* "match" is  tenantIdColumn::TEXT = current_setting('app.current_tenant')
\* faulty variant: tenant_insert created WITH CHECK (true)
InsertPolicyPermissive ==
    {[name |-> "tenant_isolation", cmd |-> "ALL", using |-> "match", check |-> "match"],
     [name |-> "tenant_insert", cmd |-> "INSERT", using |-> "none", check |-> "true"]}

createPoliciesOverTable ==
    {[name |-> "tenant_isolation", cmd |-> "ALL", using |-> "match", check |-> "match"],
     [name |-> "tenant_insert", cmd |-> "INSERT", using |-> "none", check |-> "match"]}

IdleConn ==
    [pc |-> "idle", owner |-> Null, kind |-> Null,
     sessTenant |-> Null, sessRole |-> AdminRole,
     txn |-> "none", locTenant |-> Null, locRole |-> Null, stale |-> FALSE]

NoStmt ==
    [caller |-> Null, effTenant |-> Null, effRole |-> Null, reused |-> FALSE,
     foreignWrite |-> FALSE,
     rejected |-> FALSE, wrote |-> FALSE, touchedOthers |-> FALSE]

RlsInit ==
    /\ rlsVariant \in RlsVariants
    /\ rlsRole = FALSE
    /\ rlsEnabled = FALSE
    /\ rlsPolicies = {}
    /\ rlsRows = {}
    /\ rlsConn = [c \in RlsConns |-> IdleConn]
    /\ rlsLast = NoStmt

RlsIdle ==
    /\ rlsVariant = "plain"
    /\ rlsRole = FALSE
    /\ rlsEnabled = FALSE
    /\ rlsPolicies = {}
    /\ rlsRows = {}
    /\ rlsConn = [c \in RlsConns |-> IdleConn]
    /\ rlsLast = NoStmt

\* PostgresRlsManagement.setup(tables), one transaction: the role is created
\* unless it exists, RLS enabled, the policies created; an existing policy of
\* the same name is an error and everything is rolled back.
RlsSetup ==
    /\ \A p \in rlsPolicies : p.name \notin {q.name : q \in createPoliciesOverTable}
    /\ rlsRole' = TRUE
    /\ rlsEnabled' = TRUE
    /\ rlsPolicies' = rlsPolicies \cup createPoliciesOverTable
    /\ UNCHANGED <<rlsVariant, rlsRows, rlsConn, rlsLast>>
    /\ UNCHANGED notRls

\* the settings in force for a statement on connection c: transaction-local
\* settings (set_config(..., true)) hide the session's while the transaction
\* is open
EffTenant(c) ==
    IF rlsConn[c].txn = "open" /\ rlsConn[c].locTenant # Null
    THEN rlsConn[c].locTenant ELSE rlsConn[c].sessTenant
EffRole(c) ==
    IF rlsConn[c].txn = "open" /\ rlsConn[c].locRole # Null
    THEN rlsConn[c].locRole ELSE rlsConn[c].sessRole

\* pool.connect() hands out a connection no one holds
CanCheckout(c) == rlsConn[c].pc = "idle"

\* faulty variant: the settings are applied only to a connection that has none yet
SessionSettingsOnce(conn, id) ==
    IF conn.sessTenant = Null
    THEN [conn EXCEPT !.sessTenant = id, !.sessRole = DEFAULT_ROLE]
    ELSE conn

\* set_config('app.current_tenant', id, false); set_config('role', tenant_role, false)
SessionSettings(conn, id) ==
    [conn EXCEPT !.sessTenant = id, !.sessRole = DEFAULT_ROLE]

\* BEGIN; set_config('app.current_tenant', id, true); set_config('role', tenant_role, true)
\* (BEGIN inside an open transaction only warns)
LocalSettings(conn, id) ==
    [conn EXCEPT !.txn = "open", !.locTenant = id, !.locRole = DEFAULT_ROLE]

\* ROLLBACK (also COMMIT of an aborted transaction) ends the transaction and
\* drops its local settings
EndTxn(conn) == [conn EXCEPT !.txn = "none", !.locTenant = Null, !.locRole = Null]

Released(conn) ==
    [conn EXCEPT !.pc = "idle", !.owner = Null, !.kind = Null, !.stale = FALSE]

\* the connection still carries the binding of a tenant other than id
CarriesOther(c, id) ==
    \/ rlsConn[c].sessTenant \notin {Null, id}
    \/ rlsConn[c].txn = "open" /\ rlsConn[c].locTenant \notin {Null, id}

\* the settings statement fails when the role does not exist, or (any
\* statement but ROLLBACK) when the connection's transaction is aborted
SettingsFail(c) == ~rlsRole \/ rlsConn[c].txn = "aborted"

\* getClientFor(id) of PostgresRlsTenants (plain) and of PgBouncerRlsTenants
RlsGetClientFor(c, id, kind) ==
    /\ CanCheckout(c)
    /\ LET held == [rlsConn[c] EXCEPT !.pc = "ready", !.owner = id, !.kind = kind,
                                      !.stale = CarriesOther(c, id)] IN
       rlsConn' = [rlsConn EXCEPT ![c] =
          CASE rlsVariant = "plain" ->
                 IF SettingsFail(c) THEN rlsConn[c]            \* released, error thrown
                 ELSE SessionSettings(held, id)
            [] rlsVariant = "session_mode" ->
                 IF SettingsFail(c) THEN [held EXCEPT !.pc = "leaked"]  \* thrown, never released
                 ELSE SessionSettings(held, id)
            [] rlsVariant = "transaction_mode" ->
                 IF SettingsFail(c) THEN EndTxn(rlsConn[c])    \* ROLLBACK, released, thrown
                 ELSE LocalSettings(held, id)]
    /\ UNCHANGED <<rlsVariant, rlsRole, rlsEnabled, rlsPolicies, rlsRows, rlsLast>>
    /\ UNCHANGED notRls

\* ---- what the server does with a statement under row level security ----
ExprHolds(expr, rowTenant, eff) ==
    CASE expr = "match" -> rowTenant = eff
      [] expr = "true" -> TRUE
      [] OTHER -> FALSE

Applicable(cmd) == {p \in rlsPolicies : p.cmd \in {"ALL", cmd}}

\* an existing row is visible to cmd iff some applicable policy's USING holds
RowVisible(cmd, row, eff) ==
    ~rlsEnabled \/ \E p \in Applicable(cmd) : ExprHolds(p.using, row.tenant, eff)

\* a new row passes iff some applicable policy's WITH CHECK holds
NewRowAllowed(cmd, newTenant, eff) ==
    ~rlsEnabled \/ \E p \in Applicable(cmd) : ExprHolds(p.check, newTenant, eff)

FreeIds == (1..MaxRlsRows) \ {r.id : r \in rlsRows}
SqlCmd(stmt) == IF stmt = "UPDATE_TENANT" THEN "UPDATE" ELSE stmt

\* the rows the statement targets: WHERE tenant_id = w, narrowed by USING
Targets(stmt, w, eff) ==
    {r \in rlsRows : r.tenant = w /\ RowVisible(SqlCmd(stmt), r, eff)}

\* INSERT a row with tenant id x / UPDATE .. SET tenant_id = x WHERE tenant_id = w
StmtRejected(stmt, w, x, eff) ==
    CASE stmt = "INSERT" -> ~NewRowAllowed("INSERT", x, eff)
      [] stmt = "UPDATE_TENANT" ->
           Targets(stmt, w, eff) # {} /\ ~NewRowAllowed("UPDATE", x, eff)
      [] stmt = "UPDATE" ->
           Targets(stmt, w, eff) # {} /\ ~NewRowAllowed("UPDATE", w, eff)
      [] OTHER -> FALSE

RowsAfter(stmt, w, x, eff) ==
    IF StmtRejected(stmt, w, x, eff) THEN rlsRows
    ELSE CASE stmt = "INSERT" ->
                rlsRows \cup {[id |-> CHOOSE i \in FreeIds : \A j \in FreeIds : i <= j,
                               tenant |-> x]}
           [] stmt = "UPDATE_TENANT" ->
                (rlsRows \ Targets(stmt, w, eff))
                  \cup {[r EXCEPT !.tenant = x] : r \in Targets(stmt, w, eff)}
           [] stmt = "DELETE" -> rlsRows \ Targets(stmt, w, eff)
           [] OTHER -> rlsRows

StmtRecord(c, stmt, w, x) ==
    LET eff == EffTenant(c)
        me == rlsConn[c].owner IN
    [caller |-> me, effTenant |-> eff, effRole |-> EffRole(c),
     reused |-> rlsConn[c].stale,
     foreignWrite |-> \/ stmt = "INSERT" /\ x # me
                      \/ stmt = "UPDATE_TENANT" /\ x # me /\ Targets(stmt, w, eff) # {},
     rejected |-> StmtRejected(stmt, w, x, eff),
     wrote |-> RowsAfter(stmt, w, x, eff) # rlsRows,
     touchedOthers |-> /\ stmt \in {"UPDATE", "UPDATE_TENANT", "DELETE"}
                       /\ ~StmtRejected(stmt, w, x, eff)
                       /\ \E r \in Targets(stmt, w, eff) : r.tenant # me]

StmtEnabled(stmt) == stmt = "INSERT" => FreeIds # {}

\* queryAs(id, query): the query on the client getClientFor returned, then
\* (transaction_mode) COMMIT, or ROLLBACK when the query failed, then release
RlsQueryAs(c, stmt, w, x) ==
    /\ rlsConn[c].pc = "ready" /\ rlsConn[c].kind = "queryAs"
    /\ StmtEnabled(stmt)
    /\ rlsLast' = StmtRecord(c, stmt, w, x)
    /\ rlsRows' = RowsAfter(stmt, w, x, EffTenant(c))
    /\ rlsConn' = [rlsConn EXCEPT ![c] =
          IF rlsVariant = "transaction_mode"
          THEN Released(EndTxn(rlsConn[c]))
          ELSE Released(rlsConn[c])]
    /\ UNCHANGED <<rlsVariant, rlsRole, rlsEnabled, rlsPolicies>>
    /\ UNCHANGED notRls

\* one statement of the callback of withClientFor(id, cb); a failed statement
\* aborts the open transaction
RlsCallbackQuery(c, stmt, w, x) ==
    /\ rlsConn[c].pc = "ready" /\ rlsConn[c].kind = "withClientFor"
    /\ rlsConn[c].txn # "aborted"
    /\ StmtEnabled(stmt)
    /\ rlsLast' = StmtRecord(c, stmt, w, x)
    /\ rlsRows' = RowsAfter(stmt, w, x, EffTenant(c))
    /\ rlsConn' = [rlsConn EXCEPT ![c].txn =
          IF @ = "open" /\ StmtRejected(stmt, w, x, EffTenant(c)) THEN "aborted" ELSE @]
    /\ UNCHANGED <<rlsVariant, rlsRole, rlsEnabled, rlsPolicies>>
    /\ UNCHANGED notRls

\* withClientFor's finally: the client is released (nothing is committed or
\* rolled back here)
RlsCallbackEnd(c) ==
    /\ rlsConn[c].pc = "ready" /\ rlsConn[c].kind = "withClientFor"
    /\ rlsConn' = [rlsConn EXCEPT ![c] = Released(rlsConn[c])]
    /\ UNCHANGED <<rlsVariant, rlsRole, rlsEnabled, rlsPolicies, rlsRows, rlsLast>>
    /\ UNCHANGED notRls

RlsStep ==
    \/ RlsSetup
    \/ \E c \in RlsConns, t \in RlsTenants, k \in {"queryAs", "withClientFor"} :
          RlsGetClientFor(c, t, k)
    \/ \E c \in RlsConns, s \in RlsStmts, w \in RlsTenants, x \in RlsTenants :
          RlsQueryAs(c, s, w, x)
    \/ \E c \in RlsConns, s \in RlsStmts, w \in RlsTenants, x \in RlsTenants :
          RlsCallbackQuery(c, s, w, x)
    \/ \E c \in RlsConns : RlsCallbackEnd(c)

(***************************************************************************)
(* Postgres Schema and Database isolation: createTenant / deleteTenant of  *)
(* PostgresSchemaManagement and PostgresDatabaseManagement, and the        *)
(* writes a tenant makes through its client.                               *)
(***************************************************************************)
ProvTenants == {<<"a">>, <<"b">>}
ProvValues == {"v1"}
ProvStrategies == {"schema", "database"}

DEFAULT_TENANT_DB_PREFIX == <<"tenant_">>
DEFAULT_TENANT_SCHEMA_PREFIX == <<"tenant_">>
DEFAULT_TENANT_ROLE_PREFIX == <<"tenant_">>

getSchemaNameForTenant(tenantId) == DEFAULT_TENANT_SCHEMA_PREFIX \o tenantId
getDatabaseNameForTenant(tenantId) == DEFAULT_TENANT_DB_PREFIX \o tenantId
generateDefaultTenantRoleName(tenantId) == DEFAULT_TENANT_ROLE_PREFIX \o tenantId

ProvEmpty ==
    /\ pgSchemas = {}
    /\ pgDatabases = {}
    /\ pgRoles = {}
    /\ provSecrets = EmptyMap
    /\ provData = [t \in ProvTenants |-> {}]
    /\ provOpen = {}
    /\ provSeq = [t \in ProvTenants |-> "none"]

ProvInit ==
    /\ provStrategy \in ProvStrategies
    /\ provForce \in BOOLEAN
    /\ ProvEmpty

ProvIdle ==
    /\ provStrategy = "schema"
    /\ provForce = FALSE
    /\ ProvEmpty

\* progress of tenant t through  createTenant, writes, deleteTenant, createTenant
SeqAfterCreate(seq, ok) ==
    IF ok THEN (IF seq = "deleted" THEN "recreated" ELSE "created")
    ELSE (IF seq = "deleted" THEN "recreateFailed" ELSE seq)
SeqAfterWrite(seq) == IF seq \in {"created", "written", "recreated"} THEN "written" ELSE seq
SeqAfterDelete(seq, ok) ==
    IF ok THEN (IF seq = "written" THEN "deleted" ELSE "none") ELSE seq

\* PostgresSchemaManagement.createTenant: BEGIN; CREATE SCHEMA; CREATE ROLE and
\* grants; COMMIT; store the descriptor.  A failing statement (the schema or
\* the role already exists) rolls the transaction back and is thrown.
SchemaCreateTenant(tenantId) ==
    LET schemaName == getSchemaNameForTenant(tenantId)
        roleName == generateDefaultTenantRoleName(tenantId)
        ok == schemaName \notin pgSchemas /\ roleName \notin pgRoles IN
    /\ provStrategy = "schema"
    /\ pgSchemas' = IF ok THEN pgSchemas \cup {schemaName} ELSE pgSchemas
    /\ pgRoles' = IF ok THEN pgRoles \cup {roleName} ELSE pgRoles
    /\ provSecrets' = IF ok THEN MapPut(provSecrets, tenantId,
                                        [user |-> roleName, schema |-> schemaName])
                      ELSE provSecrets
    /\ provData' = IF ok THEN [provData EXCEPT ![tenantId] = {}] ELSE provData
    /\ provSeq' = [provSeq EXCEPT ![tenantId] = SeqAfterCreate(@, ok)]
    /\ UNCHANGED <<provStrategy, provForce, pgDatabases, provOpen>>
    /\ UNCHANGED notProv

\* PostgresSchemaManagement.deleteTenant: the descriptor is read (an error
\* when there is none) and DROP SCHEMA "<config.schema>" CASCADE is run (an
\* error when the schema does not exist); nothing else is done.
SchemaDeleteTenant(tenantId) ==
    LET ok == tenantId \in DOMAIN provSecrets
              /\ provSecrets[tenantId].schema \in pgSchemas IN
    /\ provStrategy = "schema"
    /\ pgSchemas' = IF ok THEN pgSchemas \ {provSecrets[tenantId].schema} ELSE pgSchemas
    /\ provData' = IF ok THEN [provData EXCEPT ![tenantId] = {}] ELSE provData
    /\ provSeq' = [provSeq EXCEPT ![tenantId] = SeqAfterDelete(@, ok)]
    /\ UNCHANGED <<provStrategy, provForce, pgDatabases, pgRoles, provSecrets, provOpen>>
    /\ UNCHANGED notProv

\* PostgresDatabaseManagement.createTenant: CREATE DATABASE, CREATE ROLE and
\* grant, store the descriptor, schema grants; no transaction: a statement
\* that fails is thrown and what the earlier ones created stays.
DatabaseCreated(tenantId) == getDatabaseNameForTenant(tenantId) \notin pgDatabases

\* every statement of createTenant succeeds
DatabaseCreateOk(tenantId) ==
    /\ DatabaseCreated(tenantId)
    /\ generateDefaultTenantRoleName(tenantId) \notin pgRoles

DatabaseCreateEffect(tenantId) ==
    LET databaseName == getDatabaseNameForTenant(tenantId)
        roleName == generateDefaultTenantRoleName(tenantId)
        created == DatabaseCreated(tenantId)
        ok == DatabaseCreateOk(tenantId) IN
    /\ provStrategy = "database"
    /\ pgDatabases' = IF created THEN pgDatabases \cup {databaseName} ELSE pgDatabases
    /\ pgRoles' = IF ok THEN pgRoles \cup {roleName} ELSE pgRoles
    /\ provSecrets' = IF ok THEN MapPut(provSecrets, tenantId,
                                        [user |-> roleName, database |-> databaseName])
                      ELSE provSecrets
    /\ provData' = IF created THEN [provData EXCEPT ![tenantId] = {}] ELSE provData
    /\ provSeq' = [provSeq EXCEPT ![tenantId] = SeqAfterCreate(@, ok)]
    /\ UNCHANGED <<provStrategy, provForce, pgSchemas, provOpen>>

DatabaseCreateTenant(tenantId) ==
    /\ DatabaseCreateEffect(tenantId)
    /\ UNCHANGED notProv

MapRemove(f, k) == [x \in DOMAIN f \ {k} |-> f[x]]

\* PostgresDatabaseManagement.deleteTenant: the descriptor is read, DROP
\* DATABASE [WITH (FORCE)] run (without FORCE it fails while sessions are
\* connected to the database), the descriptor removed, the role dropped.
DatabaseDeleteOk(tenantId) ==
    /\ tenantId \in DOMAIN provSecrets
    /\ provSecrets[tenantId].database \in pgDatabases
    /\ (provForce \/ tenantId \notin provOpen)

DatabaseDeleteEffect(tenantId) ==
    LET ok == DatabaseDeleteOk(tenantId) IN
    /\ provStrategy = "database"
    /\ pgDatabases' = IF ok THEN pgDatabases \ {provSecrets[tenantId].database}
                      ELSE pgDatabases
    /\ pgRoles' = IF ok THEN pgRoles \ {provSecrets[tenantId].user} ELSE pgRoles
    /\ provSecrets' = IF ok THEN MapRemove(provSecrets, tenantId) ELSE provSecrets
    /\ provData' = IF ok THEN [provData EXCEPT ![tenantId] = {}] ELSE provData
    /\ provOpen' = IF ok THEN provOpen \ {tenantId} ELSE provOpen
    /\ provSeq' = [provSeq EXCEPT ![tenantId] = SeqAfterDelete(@, ok)]
    /\ UNCHANGED <<provStrategy, provForce, pgSchemas>>

DatabaseDeleteTenant(tenantId) ==
    /\ DatabaseDeleteEffect(tenantId)
    /\ UNCHANGED notProv

\* the tenant's schema / database exists and its role can log in
ProvReachable(tenantId) ==
    /\ tenantId \in DOMAIN provSecrets
    /\ provSecrets[tenantId].user \in pgRoles
    /\ IF provStrategy = "schema"
       THEN provSecrets[tenantId].schema \in pgSchemas
       ELSE provSecrets[tenantId].database \in pgDatabases

\* a write through the tenant's client (Tenants.queryAs); the tenant's pool
\* keeps the connection it opened
ProvQueryAs(tenantId, v) ==
    /\ ProvReachable(tenantId)
    /\ provData' = [provData EXCEPT ![tenantId] = @ \cup {v}]
    /\ provOpen' = provOpen \cup {tenantId}
    /\ provSeq' = [provSeq EXCEPT ![tenantId] = SeqAfterWrite(@)]
    /\ UNCHANGED <<provStrategy, provForce, pgSchemas, pgDatabases, pgRoles, provSecrets>>
    /\ UNCHANGED notProv

\* Tenants.end(tenantId): the tenant's pool and its connections are closed
ProvTenantsEnd(tenantId) ==
    /\ tenantId \in provOpen
    /\ provOpen' = provOpen \ {tenantId}
    /\ UNCHANGED <<provStrategy, provForce, pgSchemas, pgDatabases, pgRoles, provSecrets,
                   provData, provSeq>>
    /\ UNCHANGED notProv

ProvStep ==
    \/ \E t \in ProvTenants : SchemaCreateTenant(t)
    \/ \E t \in ProvTenants : SchemaDeleteTenant(t)
    \/ \E t \in ProvTenants : DatabaseCreateTenant(t)
    \/ \E t \in ProvTenants : DatabaseDeleteTenant(t)
    \/ \E t \in ProvTenants, v \in ProvValues : ProvQueryAs(t, v)
    \/ \E t \in ProvTenants : ProvTenantsEnd(t)

(***************************************************************************)
(* PgBouncer-aware Tenants: getClientFor and queryAs of                    *)
(* PgBouncerRlsTenants, PgBouncerSchemaTenants, PgBouncerDatabaseTenants.  *)
(* Concurrent calls for one tenant share the tenant's pool; every await of *)
(* a call is one step.  Each call's query writes the call's own mark.      *)
(***************************************************************************)
PgbCalls == {"q1", "q2", "q3"}
PgbConns == {"p1", "p2"}
PgbStrategies == {"rls", "schema", "database"}
PgbValidModes == {"session_mode", "transaction_mode"}
\* a pooling mode that is absent (Null) or not one of the two known values
PgbModes == PgbValidModes \cup {Null, "statement_mode"}
PgbKinds == {"queryAs", "getClientFor"}

PgbIdleConn ==
    [pc |-> "idle", holder |-> Null, txn |-> "none", txnOwner |-> Null,
     pending |-> {}, broken |-> FALSE]

PgbNewCall ==
    [kind |-> Null, pc |-> "new", conn |-> Null, log |-> <<>>,
     cause |-> Null, delivered |-> Null, rollbacks |-> 0, rbFailed |-> FALSE,
     returned |-> FALSE, released |-> FALSE, dirty |-> FALSE, ownTxn |-> FALSE]

PgbEmpty ==
    /\ pgbConn = [c \in PgbConns |-> PgbIdleConn]
    /\ pgbCall = [q \in PgbCalls |-> PgbNewCall]
    /\ pgbCommitted = {}

PgbInit ==
    /\ pgbStrategy \in PgbStrategies
    /\ pgbMode \in PgbModes
    /\ PgbEmpty

PgbIdle ==
    /\ pgbStrategy = "rls"
    /\ pgbMode = "session_mode"
    /\ PgbEmpty

\* faulty variant: an unknown or missing mode is treated as session_mode
DefaultedMode(mode) == IF mode \in PgbValidModes THEN mode ELSE "session_mode"

\* faulty variant: every mode is treated as session_mode
SessionModeOnly(mode) == "session_mode"

\* the mode getClientFor / queryAs branch on: this.poolMode,
\* this.poolsMode.get(tenantId)
PoolMode(mode) == mode

\* faulty variant: pool.connect() hands out a connection another call still holds
PgbSharedCheckout(c) == pgbConn[c].pc \in {"idle", "held"}

\* pool.connect() hands out a connection no one holds
PgbCanCheckout(c) == pgbConn[c].pc = "idle"

\* client.release(): a connection that broke is discarded by the pool and
\* replaced; any other goes back as it is, open transaction included
PgbReleased(conn) ==
    IF conn.broken THEN PgbIdleConn
    ELSE [conn EXCEPT !.pc = "idle", !.holder = Null]

\* the tenant settings statement of each strategy (Database has none)
PgbSettingsStmts(scope) ==
    IF pgbStrategy = "database" THEN <<>> ELSE <<scope>>

\* getClientFor up to pool.connect(): PgBouncerSchemaTenants checks the mode
\* before it connects; PgBouncerRlsTenants and PgBouncerDatabaseTenants
\* connect first and throw "Invalid mode" without releasing;
\* PgBouncerDatabaseTenants in session_mode returns the client as it is.
PgbGetClientFor(q, c, kind) ==
    LET mode == PoolMode(pgbMode)
        call == [pgbCall[q] EXCEPT !.kind = kind] IN
    /\ pgbCall[q].pc = "new"
    /\ IF pgbStrategy = "schema" /\ mode \notin PgbValidModes
       THEN /\ pgbCall' = [pgbCall EXCEPT ![q] =
                    [call EXCEPT !.pc = "done", !.delivered = "InvalidMode"]]
            /\ UNCHANGED pgbConn
       ELSE /\ PgbCanCheckout(c)
            /\ pgbConn' = [pgbConn EXCEPT ![c] =
                    [@ EXCEPT !.pc = IF mode \in PgbValidModes THEN "held" ELSE "leaked",
                              !.holder = q]]
            /\ pgbCall' = [pgbCall EXCEPT ![q] =
                    IF mode \notin PgbValidModes
                    THEN [call EXCEPT !.pc = "done", !.conn = c, !.delivered = "InvalidMode"]
                    ELSE IF pgbStrategy = "database" /\ mode = "session_mode"
                    THEN [call EXCEPT !.pc = IF kind = "queryAs" THEN "ready" ELSE "returned",
                                      !.conn = c, !.returned = TRUE]
                    ELSE [call EXCEPT !.pc = "connected", !.conn = c]]
    /\ UNCHANGED <<pgbStrategy, pgbMode, pgbCommitted>>
    /\ UNCHANGED notPgb

\* getClientFor after pool.connect(): session_mode applies the settings with
\* set_config(..., false) and has no catch (a failure is thrown with the
\* client still checked out); transaction_mode sends BEGIN and the settings
\* with set_config(..., true) and on failure goes to ROLLBACK.
PgbSettings(q, fails) ==
    LET c == pgbCall[q].conn
        conn == pgbConn[c]
        mode == PoolMode(pgbMode)
        next == IF pgbCall[q].kind = "queryAs" THEN "ready" ELSE "returned" IN
    /\ pgbCall[q].pc = "connected"
    /\ conn.txn = "aborted" => fails
    /\ IF mode = "session_mode"
       THEN /\ pgbConn' = [pgbConn EXCEPT ![c].pc = IF fails THEN "leaked" ELSE @]
            /\ pgbCall' = [pgbCall EXCEPT ![q] =
                 IF fails
                 THEN [@ EXCEPT !.log = @ \o PgbSettingsStmts("SET_SESSION"),
                                !.pc = "done", !.cause = "SettingsError",
                                !.delivered = "SettingsError"]
                 ELSE [@ EXCEPT !.log = @ \o PgbSettingsStmts("SET_SESSION"),
                                !.pc = next, !.returned = TRUE]]
       ELSE /\ pgbConn' = [pgbConn EXCEPT ![c] =
                 IF fails THEN [@ EXCEPT !.txn = "aborted"]
                 ELSE IF conn.txn = "none" THEN [@ EXCEPT !.txn = "open", !.txnOwner = q]
                 ELSE @]
            /\ pgbCall' = [pgbCall EXCEPT ![q] =
                 IF fails
                 THEN [@ EXCEPT !.log = @ \o <<"BEGIN">> \o PgbSettingsStmts("SET_LOCAL"),
                                !.pc = "gcRollback", !.cause = "SettingsError"]
                 ELSE [@ EXCEPT !.log = @ \o <<"BEGIN">> \o PgbSettingsStmts("SET_LOCAL"),
                                !.pc = next, !.returned = TRUE]]
    /\ UNCHANGED <<pgbStrategy, pgbMode, pgbCommitted>>
    /\ UNCHANGED notPgb

\* what ROLLBACK leaves on the connection; a ROLLBACK that fails means the
\* connection is lost, and the server drops the transaction with it
PgbRolledBack(conn, fails) ==
    [conn EXCEPT !.txn = "none", !.txnOwner = Null, !.pending = {}, !.broken = fails]

\* getClientFor's catch in transaction_mode: ROLLBACK (its error only
\* logged), release, and the settings error thrown
PgbGcRollback(q, fails) ==
    LET c == pgbCall[q].conn IN
    /\ pgbCall[q].pc = "gcRollback"
    /\ pgbConn' = [pgbConn EXCEPT ![c] = PgbReleased(PgbRolledBack(@, fails))]
    /\ pgbCall' = [pgbCall EXCEPT ![q] =
            [@ EXCEPT !.log = Append(@, "ROLLBACK"), !.pc = "done", !.released = TRUE,
                      !.delivered = pgbCall[q].cause]]
    /\ UNCHANGED <<pgbStrategy, pgbMode, pgbCommitted>>
    /\ UNCHANGED notPgb

\* faulty variant: PostgresTenantsBase.queryAs: the query, then release
AfterQueryBase(mode, failed) == "done"

\* queryAs after the tenant query: transaction_mode goes on to COMMIT, or to
\* ROLLBACK when the query failed; otherwise the client is released
AfterQuery(mode, failed) ==
    IF mode = "transaction_mode" THEN (IF failed THEN "rollback" ELSE "commit")
    ELSE "done"

\* queryAs: the tenant query on the client getClientFor returned.  Inside a
\* transaction the write is pending until COMMIT and the query sees what the
\* connection's transaction has pending; outside it commits by itself.
PgbQuery(q, fails) ==
    LET c == pgbCall[q].conn
        conn == pgbConn[c]
        inTxn == conn.txn = "open"
        next == AfterQuery(PoolMode(pgbMode), fails)
        after == IF inTxn
                 THEN [conn EXCEPT !.pending = @ \cup {q},
                                   !.txn = IF fails THEN "aborted" ELSE "open"]
                 ELSE conn IN
    /\ pgbCall[q].pc = "ready"
    /\ conn.txn = "aborted" => fails
    /\ pgbConn' = [pgbConn EXCEPT ![c] = IF next = "done" THEN PgbReleased(after) ELSE after]
    /\ pgbCommitted' = IF conn.txn = "none" /\ ~fails THEN pgbCommitted \cup {q}
                       ELSE pgbCommitted
    /\ pgbCall' = [pgbCall EXCEPT ![q] =
            [@ EXCEPT !.log = Append(@, "QUERY"),
                      !.dirty = conn.pending \ {q} # {},
                      !.ownTxn = inTxn /\ conn.txnOwner = q,
                      !.cause = IF fails THEN "QueryError" ELSE Null,
                      !.pc = next,
                      !.released = (next = "done"),
                      !.delivered = IF next # "done" THEN Null
                                    ELSE IF fails THEN "QueryError" ELSE "ok"]]
    /\ UNCHANGED <<pgbStrategy, pgbMode>>
    /\ UNCHANGED notPgb

\* queryAs: COMMIT.  A COMMIT of an aborted transaction rolls it back; a
\* COMMIT that fails commits nothing and queryAs goes to its catch.
PgbCommit(q, fails) ==
    LET c == pgbCall[q].conn
        conn == pgbConn[c]
        ended == [conn EXCEPT !.txn = "none", !.txnOwner = Null, !.pending = {}] IN
    /\ pgbCall[q].pc = "commit"
    /\ pgbCommitted' = IF ~fails /\ conn.txn = "open" THEN pgbCommitted \cup conn.pending
                       ELSE pgbCommitted
    /\ pgbConn' = [pgbConn EXCEPT ![c] = IF fails THEN ended ELSE PgbReleased(ended)]
    /\ pgbCall' = [pgbCall EXCEPT ![q] =
            IF fails
            THEN [@ EXCEPT !.log = Append(@, "COMMIT"), !.pc = "rollback",
                           !.cause = "CommitError"]
            ELSE [@ EXCEPT !.log = Append(@, "COMMIT"), !.pc = "done",
                           !.released = TRUE, !.delivered = "ok"]]
    /\ UNCHANGED <<pgbStrategy, pgbMode>>
    /\ UNCHANGED notPgb

\* faulty variant: a failing ROLLBACK replaces the error queryAs throws
RollbackErrorWins(cause, rollbackFailed) ==
    IF rollbackFailed THEN "RollbackError" ELSE cause

\* queryAs's catch: the rollback error is logged, `throw err` rethrows what
\* was caught
ThrownAfterRollback(cause, rollbackFailed) == cause

\* queryAs's catch in transaction_mode: ROLLBACK once, then the error is
\* thrown; finally the client is released
PgbRollback(q, fails) ==
    LET c == pgbCall[q].conn IN
    /\ pgbCall[q].pc = "rollback"
    /\ pgbConn' = [pgbConn EXCEPT ![c] = PgbReleased(PgbRolledBack(@, fails))]
    /\ pgbCall' = [pgbCall EXCEPT ![q] =
            [@ EXCEPT !.log = Append(@, "ROLLBACK"), !.pc = "done", !.released = TRUE,
                      !.rollbacks = @ + 1, !.rbFailed = fails,
                      !.delivered = ThrownAfterRollback(pgbCall[q].cause, fails)]]
    /\ UNCHANGED <<pgbStrategy, pgbMode, pgbCommitted>>
    /\ UNCHANGED notPgb

\* the caller of getClientFor finishes with the client it was given: in
\* transaction_mode it commits, then it releases the client
PgbUserRelease(q) ==
    LET c == pgbCall[q].conn
        conn == pgbConn[c]
        ended == [conn EXCEPT !.txn = "none", !.txnOwner = Null, !.pending = {}] IN
    /\ pgbCall[q].pc = "returned"
    /\ pgbCommitted' = IF conn.txn = "open" THEN pgbCommitted \cup conn.pending
                       ELSE pgbCommitted
    /\ pgbConn' = [pgbConn EXCEPT ![c] = PgbReleased(ended)]
    /\ pgbCall' = [pgbCall EXCEPT ![q] =
            [@ EXCEPT !.log = IF conn.txn = "none" THEN @ ELSE Append(@, "COMMIT"),
                      !.pc = "done", !.released = TRUE, !.delivered = "ok"]]
    /\ UNCHANGED <<pgbStrategy, pgbMode>>
    /\ UNCHANGED notPgb

PgbStep ==
    \/ \E q \in PgbCalls, c \in PgbConns, k \in PgbKinds : PgbGetClientFor(q, c, k)
    \/ \E q \in PgbCalls, f \in BOOLEAN : PgbSettings(q, f)
    \/ \E q \in PgbCalls, f \in BOOLEAN : PgbGcRollback(q, f)
    \/ \E q \in PgbCalls, f \in BOOLEAN : PgbQuery(q, f)
    \/ \E q \in PgbCalls, f \in BOOLEAN : PgbCommit(q, f)
    \/ \E q \in PgbCalls, f \in BOOLEAN : PgbRollback(q, f)
    \/ \E q \in PgbCalls : PgbUserRelease(q)

(***************************************************************************)
(* The pools of one Tenants instance.  The Schema and Database classes     *)
(* (and their PgBouncer subclasses) keep a map tenant id -> Pool filled    *)
(* lazily by getClientFor; the RLS classes hold one pool created by the    *)
(* constructor.  getClientFor is split at its awaits.                      *)
(***************************************************************************)
MaxPools == 3

TpTenants == {"t1", "t2"}
TpCalls == {"g1", "g2"}
TpMapVariants == {"schema", "database", "pgb_schema", "pgb_database"}
TpRlsVariants == {"rls", "pgb_rls"}
TpVariants == TpMapVariants \cup TpRlsVariants

TpNewPool(tenantId) == [tenant |-> tenantId, ended |-> FALSE]
TpIdleCall == [pc |-> "idle", tenant |-> Null, pool |-> 0]

\* the constructors: PostgresRlsTenants creates this.pool;
\* PgBouncerRlsTenants calls super (which creates a pool) and then assigns
\* this.pool a second new Pool; the others start with an empty map
TpConstructed(variant) ==
    CASE variant = "rls" -> <<TpNewPool(Null)>>
      [] variant = "pgb_rls" -> <<TpNewPool(Null), TpNewPool(Null)>>
      [] OTHER -> <<>>

\* this.pool of the RLS classes: the pool assigned last
TpRlsPool == Len(TpConstructed(tpVariant))

TpStart(variant) ==
    /\ tpVariant = variant
    /\ tpPools = TpConstructed(variant)
    /\ tpMap = [t \in TpTenants |-> 0]
    /\ tpCall = [q \in TpCalls |-> TpIdleCall]
    /\ tpCreated = [t \in TpTenants |-> 0]
    /\ tpSequential = TRUE
    /\ tpAfterEnd = FALSE

TpInit == \E variant \in TpVariants : TpStart(variant)
TpIdle == TpStart("schema")

\* whether getClientFor stores the pool it created: PostgresSchemaTenants and
\* PostgresDatabaseTenants call this.pools.set; the getClientFor overrides of
\* PgBouncerSchemaTenants and PgBouncerDatabaseTenants do not
TpCaches(variant) == variant \in {"schema", "database"}

\* this.pools.get(tenantId) || (await this.initTenantPool(tenantId))
TpAfterLookup(call, tenantId) ==
    IF tpMap[tenantId] # 0
    THEN [call EXCEPT !.pc = "connect", !.tenant = tenantId, !.pool = tpMap[tenantId]]
    ELSE [call EXCEPT !.pc = "init", !.tenant = tenantId]

\* getClientFor(tenantId) up to its first await: the RLS classes go to
\* this.pool.connect(); PostgresSchemaTenants reads the descriptor first;
\* the others look the pool up at once
TpGetClientFor(q, tenantId) ==
    /\ tpCall[q].pc = "idle"
    /\ tpCall' = [tpCall EXCEPT ![q] =
          CASE tpVariant \in TpRlsVariants ->
                 [@ EXCEPT !.pc = "connect", !.tenant = tenantId, !.pool = TpRlsPool]
            [] tpVariant = "schema" -> [@ EXCEPT !.pc = "config", !.tenant = tenantId]
            [] OTHER -> TpAfterLookup(@, tenantId)]
    /\ tpSequential' = (tpSequential /\ \A o \in TpCalls : tpCall[o].pc = "idle")
    /\ tpAfterEnd' = FALSE
    /\ UNCHANGED <<tpVariant, tpPools, tpMap, tpCreated>>
    /\ UNCHANGED notTp

\* PostgresSchemaTenants.getClientFor once the descriptor has been read
TpLookup(q) ==
    /\ tpCall[q].pc = "config"
    /\ tpCall' = [tpCall EXCEPT ![q] = TpAfterLookup(@, tpCall[q].tenant)]
    /\ tpAfterEnd' = FALSE
    /\ UNCHANGED <<tpVariant, tpPools, tpMap, tpCreated, tpSequential>>
    /\ UNCHANGED notTp

\* initTenantPool resolves with a new Pool; the caller stores it in the map
\* (where the class does that) and goes on to pool.connect()
TpInitTenantPool(q) ==
    LET t == tpCall[q].tenant
        p == Len(tpPools) + 1 IN
    /\ tpCall[q].pc = "init"
    /\ Len(tpPools) < MaxPools
    /\ tpPools' = Append(tpPools, TpNewPool(t))
    /\ tpCreated' = [tpCreated EXCEPT ![t] = @ + 1]
    /\ tpMap' = IF TpCaches(tpVariant) THEN [tpMap EXCEPT ![t] = p] ELSE tpMap
    /\ tpCall' = [tpCall EXCEPT ![q] = [@ EXCEPT !.pc = "connect", !.pool = p]]
    /\ tpAfterEnd' = FALSE
    /\ UNCHANGED <<tpVariant, tpSequential>>
    /\ UNCHANGED notTp

\* pool.connect() (an error on a pool that was ended), the caller's use of
\* the client and its release
TpConnect(q) ==
    /\ tpCall[q].pc = "connect"
    /\ tpCall' = [tpCall EXCEPT ![q] = TpIdleCall]
    /\ tpAfterEnd' = FALSE
    /\ UNCHANGED <<tpVariant, tpPools, tpMap, tpCreated, tpSequential>>
    /\ UNCHANGED notTp

\* end(tenantId): the tenant's pool in the map is ended and removed
TpEndTenant(tenantId) ==
    /\ tpVariant \in TpMapVariants
    /\ tpPools' = IF tpMap[tenantId] # 0
                  THEN [tpPools EXCEPT ![tpMap[tenantId]].ended = TRUE] ELSE tpPools
    /\ tpMap' = [tpMap EXCEPT ![tenantId] = 0]
    /\ tpCreated' = [tpCreated EXCEPT ![tenantId] = 0]
    /\ tpAfterEnd' = FALSE
    /\ UNCHANGED <<tpVariant, tpCall, tpSequential>>
    /\ UNCHANGED notTp

\* end(): every pool in the map that is not ended is ended (the map keeps
\* them); the RLS classes end this.pool
TpEnd ==
    /\ tpPools' = [i \in 1..Len(tpPools) |->
          IF \/ tpVariant \in TpMapVariants /\ \E t \in TpTenants : tpMap[t] = i
             \/ tpVariant \in TpRlsVariants /\ i = TpRlsPool
          THEN [tpPools[i] EXCEPT !.ended = TRUE] ELSE tpPools[i]]
    /\ tpAfterEnd' = TRUE
    /\ UNCHANGED <<tpVariant, tpMap, tpCall, tpCreated, tpSequential>>
    /\ UNCHANGED notTp

TpStep ==
    \/ \E q \in TpCalls, t \in TpTenants : TpGetClientFor(q, t)
    \/ \E q \in TpCalls : TpLookup(q)
    \/ \E q \in TpCalls : TpInitTenantPool(q)
    \/ \E q \in TpCalls : TpConnect(q)
    \/ \E t \in TpTenants : TpEndTenant(t)
    \/ TpEnd

(***************************************************************************)
(* The pooling mode of one tenant in PgBouncerSchemaTenants and            *)
(* PgBouncerDatabaseTenants.  initTenantPool copies the descriptor's       *)
(* poolMode into this.poolsMode; getClientFor reads it to decide on BEGIN, *)
(* queryAs reads it again to decide on COMMIT.  The descriptor can be      *)
(* updated in the secret store while calls are in flight.                  *)
(***************************************************************************)
PmCalls == {"m1", "m2", "m3"}

PmNewCall == [pc |-> "new", poolMode |-> Null, beginMode |-> Null, commitMode |-> Null]

PmStart(mode) ==
    /\ pmDescriptor = mode
    /\ pmPoolsMode = Null
    /\ pmCall = [q \in PmCalls |-> PmNewCall]

PmInit == \E mode \in PgbValidModes : PmStart(mode)
PmIdle == PmStart("session_mode")

\* TenantsSecretsManager.update: the stored descriptor gets another poolMode
PmUpdateDescriptor(mode) ==
    /\ mode # pmDescriptor
    /\ pmDescriptor' = mode
    /\ UNCHANGED <<pmPoolsMode, pmCall>>
    /\ UNCHANGED notPm

\* getClientFor: this.pools.get(tenantId) finds nothing (these classes never
\* store the pool), initTenantPool is called and awaits the descriptor
PmGetClientFor(q) ==
    /\ pmCall[q].pc = "new"
    /\ pmCall' = [pmCall EXCEPT ![q].pc = "config"]
    /\ UNCHANGED <<pmDescriptor, pmPoolsMode>>
    /\ UNCHANGED notPm

\* initTenantPool once the descriptor has arrived:
\* this.poolsMode.set(tenantId, poolConfig.poolMode); new Pool(poolConfig)
PmInitTenantPool(q) ==
    /\ pmCall[q].pc = "config"
    /\ pmPoolsMode' = pmDescriptor
    /\ pmCall' = [pmCall EXCEPT ![q] = [@ EXCEPT !.pc = "lookup", !.poolMode = pmDescriptor]]
    /\ UNCHANGED pmDescriptor
    /\ UNCHANGED notPm

\* getClientFor resumes: const poolMode = this.poolsMode.get(tenantId)
PmReadMode(q) ==
    /\ pmCall[q].pc = "lookup"
    /\ pmCall' = [pmCall EXCEPT ![q] = [@ EXCEPT !.pc = "connect", !.beginMode = pmPoolsMode]]
    /\ UNCHANGED <<pmDescriptor, pmPoolsMode>>
    /\ UNCHANGED notPm

\* pool.connect() and, when poolMode is transaction_mode, BEGIN
PmBegin(q) ==
    /\ pmCall[q].pc = "connect"
    /\ pmCall' = [pmCall EXCEPT ![q].pc = "ready"]
    /\ UNCHANGED <<pmDescriptor, pmPoolsMode>>
    /\ UNCHANGED notPm

\* queryAs after getClientFor: this.poolsMode.get(tenantId) is read again to
\* choose between query + COMMIT and the query alone; then release
PmQueryAs(q) ==
    /\ pmCall[q].pc = "ready"
    /\ pmCall' = [pmCall EXCEPT ![q] = [@ EXCEPT !.pc = "done", !.commitMode = pmPoolsMode]]
    /\ UNCHANGED <<pmDescriptor, pmPoolsMode>>
    /\ UNCHANGED notPm

PmStep ==
    \/ \E mode \in PgbValidModes : PmUpdateDescriptor(mode)
    \/ \E q \in PmCalls : PmGetClientFor(q)
    \/ \E q \in PmCalls : PmInitTenantPool(q)
    \/ \E q \in PmCalls : PmReadMode(q)
    \/ \E q \in PmCalls : PmBegin(q)
    \/ \E q \in PmCalls : PmQueryAs(q)

(***************************************************************************)
(* Specifications                                                          *)
(***************************************************************************)
(***************************************************************************)
(* PgBouncerDatabaseManagement: createTenant and deleteTenant of the       *)
(* PgBouncer-aware Database Management.  A call is made on a management    *)
(* instance configured with a pooling mode; the databases, roles and       *)
(* descriptors are those of the Database strategy above.                   *)
(***************************************************************************)
PdOps == {"createTenant", "deleteTenant"}
PdNoCall == [op |-> Null, mode |-> Null, tenantId |-> Null, error |-> Null,
             sql |-> FALSE, secretCall |-> FALSE, changed |-> FALSE]

PdInit ==
    /\ provStrategy = "database"
    /\ provForce \in BOOLEAN
    /\ ProvEmpty
    /\ pdLast = PdNoCall

PdIdle == pdLast = PdNoCall

\* faulty variant: the guard on the pooling mode is absent
PgbDbNeverRejects(mode) == FALSE

\* the guard at the head of createTenant and of deleteTenant
PgbDbRejects(mode) == mode = "transaction_mode"

\* what the call changed among databases, roles and descriptors
PdChanged == <<pgDatabases', pgRoles', provSecrets'>> # <<pgDatabases, pgRoles, provSecrets>>

PgbDatabaseCreateTenant(mode, tenantId) ==
    /\ provStrategy = "database"
    /\ IF PgbDbRejects(mode)
       THEN /\ pdLast' = [op |-> "createTenant", mode |-> mode, tenantId |-> tenantId,
                           error |-> "ConfigError", sql |-> FALSE,
                           secretCall |-> FALSE, changed |-> FALSE]
            /\ UNCHANGED provVars
       ELSE /\ DatabaseCreateEffect(tenantId)
            /\ pdLast' = [op |-> "createTenant", mode |-> mode, tenantId |-> tenantId,
                           error |-> IF DatabaseCreateOk(tenantId) THEN Null ELSE "SqlError",
                           sql |-> TRUE,
                           secretCall |-> DatabaseCreateOk(tenantId),
                           changed |-> PdChanged]
    /\ UNCHANGED notProvPd

PgbDatabaseDeleteTenant(mode, tenantId) ==
    /\ provStrategy = "database"
    /\ IF PgbDbRejects(mode)
       THEN /\ pdLast' = [op |-> "deleteTenant", mode |-> mode, tenantId |-> tenantId,
                           error |-> "ConfigError", sql |-> FALSE,
                           secretCall |-> FALSE, changed |-> FALSE]
            /\ UNCHANGED provVars
       ELSE /\ DatabaseDeleteEffect(tenantId)
            /\ pdLast' = [op |-> "deleteTenant", mode |-> mode, tenantId |-> tenantId,
                           error |-> IF DatabaseDeleteOk(tenantId) THEN Null
                                     ELSE IF tenantId \in DOMAIN provSecrets THEN "SqlError"
                                     ELSE "SecretNotFound",
                           sql |-> tenantId \in DOMAIN provSecrets,
                           secretCall |-> TRUE,
                           changed |-> PdChanged]
    /\ UNCHANGED notProvPd

\* with the tenants' sessions on their databases (queryAs, end) in between
PdStep ==
    \/ \E mode \in PgbModes, t \in ProvTenants : PgbDatabaseCreateTenant(mode, t)
    \/ \E mode \in PgbModes, t \in ProvTenants : PgbDatabaseDeleteTenant(mode, t)
    \/ \E t \in ProvTenants, v \in ProvValues : ProvQueryAs(t, v)
    \/ \E t \in ProvTenants : ProvTenantsEnd(t)

(***************************************************************************)
(* RedisAclManagement: createTenant with the command rules it gives the    *)
(* tenant's ACL user, and deleteTenant, one step per await: KEYS, the DEL  *)
(* pipeline, ACL DELUSER, the removal of the descriptor.  Tenant clients   *)
(* run SET, GET, KEYS, FLUSHALL and FLUSHDB in between.                    *)
(***************************************************************************)
\* options.provision.acl.enableDangerousCommands: true, false or not given
RaFlags == {"true", "false", Null}
RaCommands == {"KEYS", "FLUSHALL", "FLUSHDB"}

\* the server's @dangerous command category (of the commands modelled)
DangerousCategory == {"KEYS", "FLUSHALL", "FLUSHDB"}

\* faulty variant: -@dangerous is never appended
AclRulesAll(enableDangerousCommands) == <<"+@all">>

\* the rules createTenant passes to ACL SETUSER after the key pattern
AclRules(enableDangerousCommands) ==
    IF enableDangerousCommands = "true" THEN <<"+@all">> ELSE <<"+@all", "-@dangerous">>

\* the server applies the rules left to right
RECURSIVE CommandPermitted(_, _)
CommandPermitted(rules, cmd) ==
    IF rules = <<>> THEN FALSE
    ELSE LET last == rules[Len(rules)]
             before == SubSeq(rules, 1, Len(rules) - 1) IN
         IF last = "+@all" THEN TRUE
         ELSE IF last = "-@dangerous" /\ cmd \in DangerousCategory THEN FALSE
         ELSE CommandPermitted(before, cmd)

\* faulty variant: KEYS finds nothing
KeysNone(prefix) == {}

\* adminRedis.keys(prefix + "*")
KeysUnderPrefix(prefix) == {pk \in DOMAIN redisKeys : IsPrefixOf(prefix, pk)}

\* the keys under the tenant's prefix tenant:<tenantId>:
TenantKeys(tenantId) ==
    {PhysicalKey(buildKeyspacePrefix(tenantId), k) : k \in RedisUserKeys}
        \cap DOMAIN redisKeys

RaNoDelete == [pc |-> "idle", tenantId |-> RedisNil, keys |-> {}, pending |-> {}]
RaNoCommand == [user |-> RedisNil, cmd |-> Null, error |-> Null, provisionedWith |-> Null]

RaInit ==
    /\ raDelete = RaNoDelete
    /\ raRules = EmptyMap
    /\ raProvisionedWith = EmptyMap
    /\ raLast = RaNoCommand

RaIdle == RaInit

\* createTenant on a management instance constructed with the given
\* options.provision.acl.enableDangerousCommands
RaCreateTenant(enableDangerousCommands, tenantId) ==
    /\ RedisAclCreateEffect(tenantId)
    /\ raRules' = MapPut(raRules, tenantId, AclRules(enableDangerousCommands))
    /\ raProvisionedWith' = MapPut(raProvisionedWith, tenantId, enableDangerousCommands)
    /\ UNCHANGED <<raDelete, raLast>>
    /\ UNCHANGED notRedisRa

\* deleteTenant(tenantId) is called
RaDeleteTenant(tenantId) ==
    /\ raDelete.pc \in {"idle", "done", "failed"}
    /\ raDelete' = [pc |-> "keys", tenantId |-> tenantId, keys |-> {},
                    pending |-> TenantKeys(tenantId)]
    /\ UNCHANGED <<raRules, raProvisionedWith, raLast>>
    /\ UNCHANGED redisVars
    /\ UNCHANGED notRedisRa

\* RedisManagementBase.deleteTenant: KEYS; without keys there is no pipeline
RaDeleteKeys ==
    LET keys == KeysUnderPrefix(buildKeyspacePrefix(raDelete.tenantId)) IN
    /\ raDelete.pc = "keys"
    /\ raDelete' = [raDelete EXCEPT !.keys = keys,
                                    !.pc = IF keys = {} THEN "deluser" ELSE "del"]
    /\ UNCHANGED <<raRules, raProvisionedWith, raLast>>
    /\ UNCHANGED redisVars
    /\ UNCHANGED notRedisRa

\* the pipeline of DEL commands
RaDeletePipeline ==
    /\ raDelete.pc = "del"
    /\ redisKeys' = [pk \in DOMAIN redisKeys \ raDelete.keys |-> redisKeys[pk]]
    /\ raDelete' = [raDelete EXCEPT !.pc = "deluser", !.pending = @ \ raDelete.keys]
    /\ UNCHANGED <<redisAcl, redisSecrets, redisLast, redisOps>>
    /\ UNCHANGED <<raRules, raProvisionedWith, raLast>>
    /\ UNCHANGED notRedisRa

\* ACL DELUSER tenantId (no error when the user does not exist)
RaDelUser ==
    /\ raDelete.pc = "deluser"
    /\ redisAcl' = MapRemove(redisAcl, raDelete.tenantId)
    /\ raRules' = MapRemove(raRules, raDelete.tenantId)
    /\ raProvisionedWith' = MapRemove(raProvisionedWith, raDelete.tenantId)
    /\ raDelete' = [raDelete EXCEPT !.pc = "remove"]
    /\ UNCHANGED <<redisKeys, redisSecrets, redisLast, redisOps>>
    /\ UNCHANGED raLast
    /\ UNCHANGED notRedisRa

\* tenantsSecretsManager.remove(tenantId); removing a descriptor that is not
\* stored fails or not, depending on the provider
RaRemoveSecret(missingThrows) ==
    /\ raDelete.pc = "remove"
    /\ redisSecrets' = MapRemove(redisSecrets, raDelete.tenantId)
    /\ raDelete' = [raDelete EXCEPT !.pc =
                       IF raDelete.tenantId \notin DOMAIN redisSecrets /\ missingThrows
                       THEN "failed" ELSE "done"]
    /\ UNCHANGED <<redisKeys, redisAcl, redisLast, redisOps>>
    /\ UNCHANGED <<raRules, raProvisionedWith, raLast>>
    /\ UNCHANGED notRedisRa

\* a client of RedisAclTenants.getClientFor(tenantId) sends KEYS *, FLUSHALL
\* or FLUSHDB: NOPERM unless the user's rules permit the command
RaTenantCommand(tenantId, cmd) ==
    LET permitted == CommandPermitted(raRules[tenantId], cmd)
        flushed == permitted /\ cmd \in {"FLUSHALL", "FLUSHDB"} IN
    /\ tenantId \in DOMAIN redisSecrets
    /\ tenantId \in DOMAIN raRules
    /\ raLast' = [user |-> tenantId, cmd |-> cmd,
                  error |-> IF permitted THEN Null ELSE "NOPERM",
                  provisionedWith |-> raProvisionedWith[tenantId]]
    /\ redisKeys' = IF flushed THEN EmptyMap ELSE redisKeys
    /\ raDelete' = IF flushed THEN [raDelete EXCEPT !.pending = {}] ELSE raDelete
    /\ UNCHANGED <<redisAcl, redisSecrets, redisLast, redisOps>>
    /\ UNCHANGED <<raRules, raProvisionedWith>>
    /\ UNCHANGED notRedisRa

\* deleteTenant among tenants that are created and write keys
RaDeleteStep ==
    \/ \E t \in RedisTenantIds : RedisAclCreateTenant(t)
    \/ \E t \in RedisTenantIds : RaDeleteTenant(t)
    \/ RaDeleteKeys
    \/ RaDeletePipeline
    \/ RaDelUser
    \/ \E missingThrows \in BOOLEAN : RaRemoveSecret(missingThrows)
    \/ \E t \in RedisTenantIds, k \in RedisUserKeys : RedisAclSet(t, k)

\* the commands of tenants provisioned by management instances with
\* different options
RaCommandStep ==
    \/ \E f \in RaFlags, t \in RedisTenantIds : RaCreateTenant(f, t)
    \/ \E t \in RedisTenantIds, cmd \in RaCommands : RaTenantCommand(t, cmd)
    \/ \E t \in RedisTenantIds, k \in RedisUserKeys : RedisAclSet(t, k)

(***************************************************************************)
(* PostgresRlsManagement: setup(tables), createTenant with autoSetup, and  *)
(* deleteTenant(id, tables) over two tables carrying the tenant-id column. *)
(* setup and deleteTenant each run in one transaction on a connection of   *)
(* the management pool; createTenant is one step per await.                *)
(***************************************************************************)
RmTables == {"T1", "T2"}
RmTableLists == {<<"T1">>, <<"T2">>, <<"T1", "T2">>, <<"T2", "T1">>, <<"T1", "T1">>}
RmTenants == {"t1", "t2"}
RmCalls == {"ct1", "ct2", "ct3"}

\* a table the role has no grant on, without RLS and without policies
RmNoTable == [granted |-> FALSE, rls |-> FALSE, policies |-> {}]
RmNoCall == [pc |-> "new", tables |-> <<>>]
RmNone == [op |-> Null, tenantId |-> Null, tables |-> <<>>, error |-> Null,
           boundTenant |-> Null, boundRole |-> Null, connAfter |-> IdleConn,
           deleted |-> 0]

RmInit ==
    /\ rmRole = FALSE
    /\ rmCatalog = [t \in RmTables |-> RmNoTable]
    /\ rmRows = {}
    /\ rmLast = RmNone
    /\ rmAutoSetup \in BOOLEAN
    /\ rmCall = [q \in RmCalls |-> RmNoCall]
    /\ rmPasses = 0

RmIdle ==
    /\ rmRole = FALSE
    /\ rmCatalog = [t \in RmTables |-> RmNoTable]
    /\ rmRows = {}
    /\ rmLast = RmNone
    /\ rmAutoSetup = FALSE
    /\ rmCall = [q \in RmCalls |-> RmNoCall]
    /\ rmPasses = 0

\* SELECT * FROM pg_policies WHERE ... tablename = table AND policyname = name
isPolicyCreated(catalog, table, policyName) ==
    \E p \in catalog[table].policies : p.name = policyName

PolicyNamed(policyName) == CHOOSE p \in createPoliciesOverTable : p.name = policyName

\* grantOverRole, enableRlsOverTable, createPoliciesOverTable for one table
\* inside the open transaction: db is the transaction's view
SetupTable(db, table) ==
    LET enabled == [db EXCEPT !.catalog[table].granted = TRUE,
                              !.catalog[table].rls = TRUE]
        isolated == [enabled EXCEPT !.catalog[table].policies =
                                        @ \cup {PolicyNamed("tenant_isolation")}]
        inserted == [isolated EXCEPT !.catalog[table].policies =
                                        @ \cup {PolicyNamed("tenant_insert")}] IN
    IF isPolicyCreated(enabled.catalog, table, "tenant_isolation")
    THEN [db |-> enabled, error |-> "PolicyConflict"]
    ELSE IF isPolicyCreated(isolated.catalog, table, "tenant_insert")
    THEN [db |-> isolated, error |-> "PolicyConflict"]
    ELSE [db |-> inserted, error |-> Null]

\* for (const table of tableList) ... ; the first error leaves the loop
RECURSIVE SetupTables(_, _)
SetupTables(db, tableList) ==
    IF tableList = <<>> THEN [db |-> db, error |-> Null]
    ELSE LET r == SetupTable(db, Head(tableList)) IN
         IF r.error # Null THEN r ELSE SetupTables(r.db, Tail(tableList))

\* faulty variant: no ROLLBACK, the statements that ran stay in effect
SetupKeepsWork(before, work) == work

\* ROLLBACK after an error: the database is as it was before BEGIN
SetupRolledBack(before, work) == before

\* setup(tableList): BEGIN, the role created unless it exists, the tables,
\* COMMIT; an error rolls back and is thrown
SetupResult(db, tableList) ==
    LET r == SetupTables([db EXCEPT !.role = TRUE], tableList) IN
    IF r.error = Null THEN r
    ELSE [db |-> SetupRolledBack(db, r.db), error |-> r.error]

RmDb == [role |-> rmRole, catalog |-> rmCatalog]

RmSetup(tableList) ==
    LET r == SetupResult(RmDb, tableList) IN
    /\ rmRole' = r.db.role
    /\ rmCatalog' = r.db.catalog
    /\ rmLast' = [RmNone EXCEPT !.op = "setup", !.tables = tableList, !.error = r.error]
    /\ UNCHANGED <<rmRows, rmAutoSetup, rmCall, rmPasses>>
    /\ UNCHANGED notRm

\* the application's own data: a row of a tenant in a table
RmInsertRow(table, tenant) ==
    /\ rmRows' = rmRows \cup {[table |-> table, tenant |-> tenant]}
    /\ rmLast' = [RmNone EXCEPT !.op = "insert", !.tenantId = tenant, !.tables = <<table>>]
    /\ UNCHANGED <<rmRole, rmCatalog, rmAutoSetup, rmCall, rmPasses>>
    /\ UNCHANGED notRm

\* faulty variant: the DELETE removes every row of the table
DeleteWholeTable(rows, tableState, table, id, conn) == {r \in rows : r.table = table}

\* DELETE FROM table WHERE tenantIdColumn = id, run as the role and with the
\* app.current_tenant of the connection: the rows of the table that the WHERE
\* clause selects and that row level security lets the role see
DeleteTargets(rows, tableState, table, id, conn) ==
    {r \in rows :
        /\ r.table = table
        /\ r.tenant = id
        /\ \/ ~tableState.rls
           \/ conn.locRole = AdminRole
           \/ \E p \in tableState.policies :
                 /\ p.cmd \in {"ALL", "DELETE"}
                 /\ p.using = "match"
                 /\ r.tenant = conn.locTenant}

\* the DELETE statements of deleteTenant, table by table; a table the role
\* has no privilege on makes its DELETE fail
RECURSIVE DeleteTables(_, _, _, _)
DeleteTables(rows, tableList, id, conn) ==
    IF tableList = <<>> THEN [rows |-> rows, error |-> Null]
    ELSE LET table == Head(tableList) IN
         IF ~rmCatalog[table].granted
         THEN [rows |-> rows, error |-> "PermissionDenied"]
         ELSE DeleteTables(rows \ DeleteTargets(rows, rmCatalog[table], table, id, conn),
                           Tail(tableList), id, conn)

\* deleteTenant(id, tableList): BEGIN, the two set_config(..., true), the
\* DELETEs, COMMIT; an error (the role does not exist, a DELETE fails) rolls
\* back and is thrown.  The connection comes from the management pool.
RmDeleteTenant(id, tableList) ==
    LET conn == LocalSettings(IdleConn, id)
        r == IF ~rmRole THEN [rows |-> rmRows, error |-> "RoleMissing"]
             ELSE DeleteTables(rmRows, tableList, id, conn) IN
    /\ rmRows' = IF r.error = Null THEN r.rows ELSE rmRows
    /\ rmLast' = [op |-> "deleteTenant", tenantId |-> id, tables |-> tableList,
                  error |-> r.error, boundTenant |-> conn.locTenant,
                  boundRole |-> conn.locRole, connAfter |-> EndTxn(conn),
                  deleted |-> IF r.error = Null THEN Cardinality(rmRows \ r.rows) ELSE 0]
    /\ UNCHANGED <<rmRole, rmCatalog, rmAutoSetup, rmCall, rmPasses>>
    /\ UNCHANGED notRm

RmSetupStep ==
    \/ \E l \in RmTableLists : RmSetup(l)
    \/ \E t \in RmTables, id \in RmTenants : RmInsertRow(t, id)
    \/ \E id \in RmTenants, l \in RmTableLists : RmDeleteTenant(id, l)

\* getMultitenantTablesWithoutRls: the tables carrying the tenant-id column
\* and not having RLS enabled, ORDER BY table_name
TablesWithoutRls ==
    LET t1 == IF rmCatalog["T1"].rls THEN <<>> ELSE <<"T1">>
        t2 == IF rmCatalog["T2"].rls THEN <<>> ELSE <<"T2">> IN
    t1 \o t2

\* createTenant: if (this.options.provision.autoSetup) await getCleanClient()
RmCreateTenant(q) ==
    /\ rmCall[q].pc = "new"
    /\ rmCall' = [rmCall EXCEPT ![q].pc = IF rmAutoSetup THEN "discover" ELSE "done"]
    /\ rmLast' = [RmNone EXCEPT !.op = "createTenant"]
    /\ UNCHANGED <<rmRole, rmCatalog, rmRows, rmAutoSetup, rmPasses>>
    /\ UNCHANGED notRm

\* await getMultitenantTablesWithoutRls(client); with no table found the
\* finally block clears autoSetup and the call returns false
RmDiscover(q) ==
    /\ rmCall[q].pc = "discover"
    /\ rmCall' = [rmCall EXCEPT ![q] =
                    [pc |-> IF TablesWithoutRls = <<>> THEN "done" ELSE "setup",
                     tables |-> TablesWithoutRls]]
    /\ rmAutoSetup' = IF TablesWithoutRls = <<>> THEN FALSE ELSE rmAutoSetup
    /\ rmLast' = [RmNone EXCEPT !.op = "discover"]
    /\ UNCHANGED <<rmRole, rmCatalog, rmRows, rmPasses>>
    /\ UNCHANGED notRm

\* await this.setup(tables) with the discovered tables, then the finally
\* block: autoSetup = false
RmAutoSetupPass(q) ==
    LET r == SetupResult(RmDb, rmCall[q].tables) IN
    /\ rmCall[q].pc = "setup"
    /\ rmRole' = r.db.role
    /\ rmCatalog' = r.db.catalog
    /\ rmAutoSetup' = FALSE
    /\ rmPasses' = rmPasses + 1
    /\ rmCall' = [rmCall EXCEPT ![q].pc = "done"]
    /\ rmLast' = [RmNone EXCEPT !.op = "autoSetup", !.tables = rmCall[q].tables,
                                !.error = r.error]
    /\ UNCHANGED rmRows
    /\ UNCHANGED notRm

RmAutoStep ==
    \/ \E q \in RmCalls : RmCreateTenant(q)
    \/ \E q \in RmCalls : RmDiscover(q)
    \/ \E q \in RmCalls : RmAutoSetupPass(q)
    \/ \E l \in RmTableLists : RmSetup(l)

(***************************************************************************)
(* Secret paths: getPattern of the Postgres and Redis resources and        *)
(* TenantsSecretsManager.getPath.  Strings are sequences of characters;    *)
(* String.prototype.replace with a string pattern replaces the first       *)
(* occurrence and expands the replacement patterns of the replacement      *)
(* string.                                                                 *)
(***************************************************************************)
MaxIdLen == 2

SpAlphabet == {"a", "$"}
SpKinds == {"postgres", "redis"}

\* the strings over the alphabet of length 1 .. MaxIdLen
SpIds == UNION {[1..n -> SpAlphabet] : n \in 1..MaxIdLen}
\* a resource id may be absent (undefined, or the empty string, which is falsy)
SpAbsent == <<>>
SpResourceIds == SpIds \cup {SpAbsent}

TenantIdPlaceholder == <<"{", "t", "e", "n", "a", "n", "t", "I", "d", "}">>
ResourceIdPlaceholder == <<"{", "r", "e", "s", "o", "u", "r", "c", "e", "I", "d", "}">>
TenantsSegment == <<"/", "t", "e", "n", "a", "n", "t", "s", "/">>
PostgresSegment == <<"/", "p", "o", "s", "t", "g", "r", "e", "s", "/">>
RedisSegment == <<"/", "r", "e", "d", "i", "s", "/">>
ConnectionSegment == <<"c", "o", "n", "n", "e", "c", "t", "i", "o", "n">>
KindSegment(kind) == IF kind = "postgres" THEN PostgresSegment ELSE RedisSegment

\* `/tenants/{tenantId}/<kind>/connection`
DEFAULT_SECRETS_PATTERN(kind) ==
    TenantsSegment \o TenantIdPlaceholder \o KindSegment(kind) \o ConnectionSegment

\* `/tenants/{tenantId}/<kind>/{resourceId}/connection`
DEFAULT_SECRETS_WITH_RESOURCE_ID_PATTERN(kind) ==
    TenantsSegment \o TenantIdPlaceholder \o KindSegment(kind)
        \o ResourceIdPlaceholder \o <<"/">> \o ConnectionSegment

\* the index of the first occurrence of pat in str, 0 when there is none
IndexOf(str, pat) ==
    LET hits == {i \in 1..(Len(str) - Len(pat) + 1) :
                    SubSeq(str, i, i + Len(pat) - 1) = pat} IN
    IF hits = {} THEN 0 ELSE CHOOSE i \in hits : \A j \in hits : i <= j

\* the replacement string as replace() inserts it: "$$" stands for one "$"
\* (the other replacement patterns need characters outside the alphabet)
RECURSIVE ExpandReplacement(_)
ExpandReplacement(repl) ==
    IF Len(repl) < 2 THEN repl
    ELSE IF repl[1] = "$" /\ repl[2] = "$"
    THEN <<"$">> \o ExpandReplacement(SubSeq(repl, 3, Len(repl)))
    ELSE <<repl[1]>> \o ExpandReplacement(Tail(repl))

\* str.replace(pat, repl)
Replace(str, pat, repl) ==
    LET i == IndexOf(str, pat) IN
    IF i = 0 THEN str
    ELSE SubSeq(str, 1, i - 1) \o ExpandReplacement(repl)
             \o SubSeq(str, i + Len(pat), Len(str))

\* getPattern of a resource of the given kind constructed with id
getPattern(kind, id) ==
    IF id = SpAbsent THEN DEFAULT_SECRETS_PATTERN(kind)
    ELSE IF kind = "redis"
    THEN Replace(DEFAULT_SECRETS_WITH_RESOURCE_ID_PATTERN(kind), ResourceIdPlaceholder, id)
    ELSE DEFAULT_SECRETS_WITH_RESOURCE_ID_PATTERN(kind)

\* TenantsSecretsManager.getPath
getPath(pattern, resourceId, tenantId) ==
    IF resourceId # SpAbsent
    THEN Replace(Replace(pattern, TenantIdPlaceholder, tenantId),
                 ResourceIdPlaceholder, resourceId)
    ELSE Replace(pattern, TenantIdPlaceholder, tenantId)

\* the path a Management or a Tenants object of the kind, constructed with
\* id, computes for tenantId: both construct
\* new TenantsSecretsManager(secrets, this.getPattern(), id)
ManagementPath(kind, id, tenantId) == getPath(getPattern(kind, id), id, tenantId)
TenantsPath(kind, id, tenantId) == getPath(getPattern(kind, id), id, tenantId)

SpNoPaths == [p1 |-> <<>>, p2 |-> <<>>, management |-> <<>>, tenants |-> <<>>]

SpInit ==
    /\ spIn \in [kind : SpKinds, t1 : SpIds, r1 : SpResourceIds,
                 t2 : SpIds, r2 : SpResourceIds]
    /\ spOut = SpNoPaths

SpIdle ==
    /\ spIn = [kind |-> "postgres", t1 |-> <<"a">>, r1 |-> SpAbsent,
               t2 |-> <<"a">>, r2 |-> SpAbsent]
    /\ spOut = SpNoPaths

SpGetPaths ==
    /\ spOut = SpNoPaths
    /\ spOut' = [p1 |-> ManagementPath(spIn.kind, spIn.r1, spIn.t1),
                 p2 |-> ManagementPath(spIn.kind, spIn.r2, spIn.t2),
                 management |-> ManagementPath(spIn.kind, spIn.r1, spIn.t1),
                 tenants |-> TenantsPath(spIn.kind, spIn.r1, spIn.t1)]
    /\ UNCHANGED spIn
    /\ UNCHANGED notSp

SpStep == SpGetPaths

(***************************************************************************)
(* TenantsSecretsManager: store, update, remove and get of a tenant's      *)
(* descriptor through JSON.stringify and JSON.parse and a secret provider  *)
(* (the local file provider or Vault), at the path getPath computes.       *)
(* A value is a tagged text; a JSON text is the sequence of its members.   *)
(***************************************************************************)
SmTenants == {<<"a">>, <<"b">>}
SmProviders == {"local", "vault"}
SmFields == <<"user", "port", "schema", "poolMode", "keyPrefix">>
SmFieldSet == {SmFields[i] : i \in 1..Len(SmFields)}

Undefined == [type |-> "undefined", v |-> ""]
Str(s) == [type |-> "string", v |-> s]
Num(n) == [type |-> "number", v |-> n]
Bool(b) == [type |-> "boolean", v |-> b]

\* descriptors as the strategies store them, and one whose strings read
\* like other JSON values
SchemaDescriptor ==
    [user |-> Str("tenant_a"), port |-> Num("5432"), schema |-> Str("tenant_a"),
     poolMode |-> Undefined, keyPrefix |-> Undefined]
PgBouncerDescriptor ==
    [user |-> Str("tenant_a"), port |-> Num("6432"), schema |-> Str("tenant_a"),
     poolMode |-> Str("transaction_mode"), keyPrefix |-> Undefined]
RedisDescriptor ==
    [user |-> Str("a"), port |-> Undefined, schema |-> Undefined,
     poolMode |-> Undefined, keyPrefix |-> Str("tenant:a:")]
OddDescriptor ==
    [user |-> Str("true"), port |-> Num("0"), schema |-> Str("5432"),
     poolMode |-> Bool("false"), keyPrefix |-> Str("")]
SmDescriptors == {SchemaDescriptor, PgBouncerDescriptor, RedisDescriptor, OddDescriptor}
SmNoDescriptor == [f \in SmFieldSet |-> Undefined]

\* faulty variant: every value is written as a JSON string
StringifyQuoted(value) == [quoted |-> TRUE, text |-> value.v]

\* JSON.stringify of a member's value: strings are quoted, numbers and
\* booleans are not
StringifyValue(value) == [quoted |-> value.type = "string", text |-> value.v]

\* JSON.stringify of an object: its members in order; a member whose value
\* is undefined is left out
IsDefined(d, f) == d[f].type # "undefined"
RECURSIVE StringifyFields(_, _)
StringifyFields(d, fields) ==
    IF fields = <<>> THEN <<>>
    ELSE (IF IsDefined(d, Head(fields))
          THEN <<[key |-> Head(fields), token |-> StringifyValue(d[Head(fields)])]>>
          ELSE <<>>) \o StringifyFields(d, Tail(fields))
Stringify(d) == StringifyFields(d, SmFields)

\* JSON.parse of a member's value
ParseToken(token) ==
    IF token.quoted THEN Str(token.text)
    ELSE IF token.text \in {"true", "false"} THEN Bool(token.text)
    ELSE Num(token.text)

\* JSON.parse of an object; a member that is not there reads as undefined
Parse(text) ==
    [f \in SmFieldSet |->
        IF \E i \in 1..Len(text) : text[i].key = f
        THEN ParseToken(text[CHOOSE i \in 1..Len(text) : text[i].key = f].token)
        ELSE Undefined]

\* the manager's pattern and path (a Postgres resource constructed without id)
SmPath(tenantId) == getPath(getPattern("postgres", SpAbsent), SpAbsent, tenantId)

SmNone == [op |-> Null, tenantId |-> <<>>, d |-> SmNoDescriptor, error |-> Null,
           result |-> SmNoDescriptor, afterStore |-> FALSE, expected |-> SmNoDescriptor]

SmInit ==
    /\ smProvider \in SmProviders
    /\ smStore = EmptyMap
    /\ smLast = SmNone

SmIdle ==
    /\ smProvider = "local"
    /\ smStore = EmptyMap
    /\ smLast = SmNone

\* provider.createSecret(path, JSON.stringify(secret)): both providers keep
\* JSON.parse(value); the local provider refuses a path that has a secret
SmStoreSecret(tenantId, d) ==
    LET path == SmPath(tenantId)
        refused == smProvider = "local" /\ path \in DOMAIN smStore IN
    /\ smStore' = IF refused THEN smStore ELSE MapPut(smStore, path, Parse(Stringify(d)))
    /\ smLast' = [SmNone EXCEPT !.op = "store", !.tenantId = tenantId, !.d = d,
                                !.error = IF refused THEN "SecretExists" ELSE Null]
    /\ UNCHANGED smProvider
    /\ UNCHANGED notSm

\* provider.updateSecret(path, JSON.stringify(secret)): the local provider
\* refuses a path without secret, Vault writes
SmUpdateSecret(tenantId, d) ==
    LET path == SmPath(tenantId)
        refused == smProvider = "local" /\ path \notin DOMAIN smStore IN
    /\ smStore' = IF refused THEN smStore ELSE MapPut(smStore, path, Parse(Stringify(d)))
    /\ smLast' = [SmNone EXCEPT !.op = "update", !.tenantId = tenantId, !.d = d,
                                !.error = IF refused THEN "SecretNotFound" ELSE Null]
    /\ UNCHANGED smProvider
    /\ UNCHANGED notSm

\* provider.deleteSecret(path)
SmRemoveSecret(tenantId) ==
    LET path == SmPath(tenantId)
        refused == smProvider = "local" /\ path \notin DOMAIN smStore IN
    /\ smStore' = MapRemove(smStore, path)
    /\ smLast' = [SmNone EXCEPT !.op = "remove", !.tenantId = tenantId,
                                !.error = IF refused THEN "SecretNotFound" ELSE Null]
    /\ UNCHANGED smProvider
    /\ UNCHANGED notSm

\* JSON.parse(await provider.getSecret(path)): the provider returns
\* JSON.stringify of what it keeps
SmGetSecret(tenantId) ==
    LET path == SmPath(tenantId)
        found == path \in DOMAIN smStore
        afterStore == /\ smLast.op = "store"
                      /\ smLast.error = Null
                      /\ smLast.tenantId = tenantId IN
    /\ smLast' = [SmNone EXCEPT !.op = "get", !.tenantId = tenantId,
                                !.error = IF found THEN Null ELSE "SecretNotFound",
                                !.result = IF found THEN Parse(Stringify(smStore[path]))
                                           ELSE SmNoDescriptor,
                                !.afterStore = afterStore,
                                !.expected = IF afterStore THEN smLast.d ELSE SmNoDescriptor]
    /\ UNCHANGED <<smProvider, smStore>>
    /\ UNCHANGED notSm

SmStep ==
    \/ \E t \in SmTenants, d \in SmDescriptors : SmStoreSecret(t, d)
    \/ \E t \in SmTenants, d \in SmDescriptors : SmUpdateSecret(t, d)
    \/ \E t \in SmTenants : SmRemoveSecret(t)
    \/ \E t \in SmTenants : SmGetSecret(t)

(***************************************************************************)
(* The descriptor lookup of getClientFor and queryAs: which calls read the *)
(* secret store, what a missing or undecodable value does to the call, and *)
(* what the call leaves in this.pools.                                     *)
(***************************************************************************)
GdTenants == {"t1", "t2"}
GdVariants == {"schema", "database", "pgb_schema", "pgb_database", "redis_acl"}
GdOps == {"getClientFor", "queryAs"}

\* stored texts: a JSON object, the same text cut short, a bare word
GdAbsent == <<>>
GdObjectText == <<"{", "config", "}">>
GdCutText == <<"{", "config">>
GdWordText == <<"config">>
GdTexts == {GdObjectText, GdCutText, GdWordText}

\* JSON.parse(text) returns (an object) instead of throwing
JsonParses(text) == Len(text) >= 2 /\ text[1] = "{" /\ text[Len(text)] = "}"

\* faulty variant: a text that does not parse reads as an empty descriptor
SecretsGetLenient(text) ==
    IF text = GdAbsent THEN "SecretNotFound" ELSE Null

\* TenantsSecretsManager.get: provider.getSecret throws when the path has no
\* value; JSON.parse throws on a text that is not JSON; both are rethrown
SecretsGet(text) ==
    IF text = GdAbsent THEN "SecretNotFound"
    ELSE IF ~JsonParses(text) THEN "MalformedSecret"
    ELSE Null

\* whether the call reads the descriptor: PostgresDatabaseTenants returns
\* pool.connect() of a pool it finds in this.pools; every other class reads
\* (getClientConfigFor or initTenantPool) on each call
ReadsDescriptor(variant, cached) == variant # "database" \/ ~cached

GdNone == [op |-> Null, tenantId |-> Null, stored |-> GdAbsent, read |-> FALSE,
           error |-> Null, client |-> FALSE, opened |-> "none", poolBefore |-> FALSE]

GdInit ==
    /\ gdVariant \in GdVariants
    /\ gdStore = [t \in GdTenants |-> GdAbsent]
    /\ gdPools = [t \in GdTenants |-> FALSE]
    /\ gdLast = GdNone

GdIdle ==
    /\ gdVariant = "schema"
    /\ gdStore = [t \in GdTenants |-> GdAbsent]
    /\ gdPools = [t \in GdTenants |-> FALSE]
    /\ gdLast = GdNone

\* Management.createTenant stores the tenant's descriptor
GdStoreDescriptor(tenantId) ==
    /\ gdStore' = [gdStore EXCEPT ![tenantId] = GdObjectText]
    /\ gdLast' = [GdNone EXCEPT !.op = "store", !.tenantId = tenantId]
    /\ UNCHANGED <<gdVariant, gdPools>>
    /\ UNCHANGED notGd

\* the descriptor is removed from the store (deleteTenant, or the store's operator)
GdRemoveDescriptor(tenantId) ==
    /\ gdStore' = [gdStore EXCEPT ![tenantId] = GdAbsent]
    /\ gdLast' = [GdNone EXCEPT !.op = "remove", !.tenantId = tenantId]
    /\ UNCHANGED <<gdVariant, gdPools>>
    /\ UNCHANGED notGd

\* the stored value is replaced by a text that is not JSON
GdCorruptDescriptor(tenantId, text) ==
    /\ ~JsonParses(text)
    /\ gdStore' = [gdStore EXCEPT ![tenantId] = text]
    /\ gdLast' = [GdNone EXCEPT !.op = "corrupt", !.tenantId = tenantId]
    /\ UNCHANGED <<gdVariant, gdPools>>
    /\ UNCHANGED notGd

\* getClientFor(tenantId), and queryAs(tenantId, ...) which awaits it before
\* its try block: the descriptor is read where the class reads it, an error
\* of the read is thrown; otherwise a pool is looked up or built from the
\* descriptor (and stored in this.pools by the classes that do), and
\* pool.connect() gives the client
GdGetClientFor(op, tenantId) ==
    LET cached == gdPools[tenantId]
        read == ReadsDescriptor(gdVariant, cached)
        error == IF read THEN SecretsGet(gdStore[tenantId]) ELSE Null
        ok == error = Null IN
    /\ gdVariant = "redis_acl" => op = "getClientFor"
    /\ gdPools' = IF ok /\ TpCaches(gdVariant) THEN [gdPools EXCEPT ![tenantId] = TRUE]
                  ELSE gdPools
    /\ gdLast' = [op |-> op, tenantId |-> tenantId, stored |-> gdStore[tenantId],
                  read |-> read, error |-> error, client |-> ok,
                  opened |-> IF ~ok THEN "none"
                             ELSE IF JsonParses(gdStore[tenantId]) THEN "descriptor"
                             ELSE IF cached THEN "cached"
                             ELSE "default",
                  poolBefore |-> cached]
    /\ UNCHANGED <<gdVariant, gdStore>>
    /\ UNCHANGED notGd

\* Tenants.end(tenantId) of the classes that keep this.pools
GdEndTenant(tenantId) ==
    /\ gdVariant # "redis_acl"
    /\ gdPools' = [gdPools EXCEPT ![tenantId] = FALSE]
    /\ gdLast' = [GdNone EXCEPT !.op = "end", !.tenantId = tenantId]
    /\ UNCHANGED <<gdVariant, gdStore>>
    /\ UNCHANGED notGd

GdStep ==
    \/ \E t \in GdTenants : GdStoreDescriptor(t)
    \/ \E t \in GdTenants : GdRemoveDescriptor(t)
    \/ \E t \in GdTenants, x \in GdTexts : GdCorruptDescriptor(t, x)
    \/ \E o \in GdOps, t \in GdTenants : GdGetClientFor(o, t)
    \/ \E t \in GdTenants : GdEndTenant(t)

(***************************************************************************)
(* PostgresDatabaseManagement with a configured database prefix:           *)
(* createTenant statement by statement (any of them may fail),             *)
(* deleteTenant, and the pool PostgresDatabaseTenants builds.              *)
(***************************************************************************)
DcTenants == {<<"a">>, <<"b">>}
\* options.provision.database.prefix as passed to the constructor
DcNotGiven == [given |-> FALSE, text |-> <<>>]
DcPrefixOptions == {DcNotGiven, [given |-> TRUE, text |-> <<>>],
                    [given |-> TRUE, text |-> <<"db_">>]}
\* the statements of createTenant, in order, and "none" for no injected failure
DcStatements == {"database", "role", "store", "connect", "grants"}
DcFailures == DcStatements \cup {"none"}
DcNoName == <<>>

\* the constructor: options?.provision?.database?.prefix || DEFAULT_TENANT_DB_PREFIX
ConstructorPrefix(option) ==
    IF option.given /\ option.text # <<>> THEN option.text ELSE DEFAULT_TENANT_DB_PREFIX

\* faulty variant: the configured prefix is ignored
DatabaseNameDefault(prefix, tenantId) == getDatabaseNameForTenant(tenantId)

\* createTenant: this.options.provision.database?.prefix + tenantId
DatabaseNameFor(prefix, tenantId) == prefix \o tenantId

\* faulty variant: a failing createTenant undoes what it created
DropCreatedOnFailure(before, after, failed) == IF failed THEN before ELSE after

\* createTenant has no catch block and sends no compensating statement
KeepCreated(before, after, failed) == after

\* this.pool.connect() and client.release() of the administrative pool
AfterConnect(out) == out + 1
AfterRelease(out) == out - 1

DcNone == [op |-> Null, tenantId |-> <<>>, error |-> Null, failedAt |-> "none",
           database |-> DcNoName, role |-> DcNoName]

DcStart(option) ==
    /\ dcPrefix = ConstructorPrefix(option)
    /\ dcDatabases = {}
    /\ dcRoles = {}
    /\ dcSecrets = EmptyMap
    /\ dcPoolDb = [t \in DcTenants |-> DcNoName]
    /\ dcAdminOut = 0
    /\ dcLast = DcNone

DcInit == \E option \in DcPrefixOptions : DcStart(option)
DcIdle == DcStart(DcNotGiven)

\* the statement at which the call fails: CREATE DATABASE and CREATE ROLE
\* fail on a name that exists; any statement may fail for an outside reason
DcFailedAt(databaseName, roleName, failAt) ==
    IF failAt = "database" \/ databaseName \in dcDatabases THEN "database"
    ELSE IF failAt = "role" \/ roleName \in dcRoles THEN "role"
    ELSE failAt

\* PostgresDatabaseManagement.createTenant: pool.connect(); CREATE DATABASE;
\* CREATE ROLE and GRANT; secretsManager.store; adminClient.connect(); schema
\* grants; finally adminClient.end(); finally client.release()
DcCreateTenant(tenantId, failAt) ==
    LET databaseName == DatabaseNameFor(dcPrefix, tenantId)
        roleName == generateDefaultTenantRoleName(tenantId)
        failedAt == DcFailedAt(databaseName, roleName, failAt)
        failed == failedAt # "none"
        client == AfterConnect(dcAdminOut) IN
    /\ dcDatabases' = KeepCreated(dcDatabases,
                          IF failedAt = "database" THEN dcDatabases
                          ELSE dcDatabases \cup {databaseName}, failed)
    /\ dcRoles' = KeepCreated(dcRoles,
                      IF failedAt \in {"database", "role"} THEN dcRoles
                      ELSE dcRoles \cup {roleName}, failed)
    /\ dcSecrets' = KeepCreated(dcSecrets,
                        IF failedAt \in {"database", "role", "store"} THEN dcSecrets
                        ELSE MapPut(dcSecrets, tenantId,
                                    [user |-> roleName, database |-> databaseName]), failed)
    /\ dcAdminOut' = AfterRelease(client)
    /\ dcLast' = [DcNone EXCEPT !.op = "createTenant", !.tenantId = tenantId,
                                !.error = IF failed THEN "Thrown" ELSE Null,
                                !.failedAt = failedAt,
                                !.database = databaseName, !.role = roleName]
    /\ UNCHANGED <<dcPrefix, dcPoolDb>>
    /\ UNCHANGED notDc

\* PostgresDatabaseTenants.getClientFor: the pool in this.pools, or a new
\* Pool(descriptor) stored there; pool.connect() fails when the pool's
\* database or role is not on the server
DcGetClientFor(tenantId) ==
    LET cached == dcPoolDb[tenantId] # DcNoName
        found == tenantId \in DOMAIN dcSecrets
        bound == IF cached THEN dcPoolDb[tenantId]
                 ELSE IF found THEN dcSecrets[tenantId].database ELSE DcNoName
        error == IF ~cached /\ ~found THEN "SecretNotFound"
                 ELSE IF bound \notin dcDatabases THEN "ConnectFailed"
                 ELSE Null IN
    /\ dcPoolDb' = [dcPoolDb EXCEPT ![tenantId] = bound]
    /\ dcLast' = [DcNone EXCEPT !.op = "getClientFor", !.tenantId = tenantId,
                                !.error = error, !.database = bound]
    /\ UNCHANGED <<dcPrefix, dcDatabases, dcRoles, dcSecrets, dcAdminOut>>
    /\ UNCHANGED notDc

\* PostgresDatabaseTenants.end(tenantId)
DcEndTenant(tenantId) ==
    /\ dcPoolDb[tenantId] # DcNoName
    /\ dcPoolDb' = [dcPoolDb EXCEPT ![tenantId] = DcNoName]
    /\ dcLast' = [DcNone EXCEPT !.op = "end", !.tenantId = tenantId]
    /\ UNCHANGED <<dcPrefix, dcDatabases, dcRoles, dcSecrets, dcAdminOut>>
    /\ UNCHANGED notDc

\* PostgresDatabaseManagement.deleteTenant (useForceOnDelete set): the
\* descriptor is read, DROP DATABASE "<descriptor.database>" WITH (FORCE),
\* the descriptor removed, DROP ROLE "<descriptor.user>"
DcDeleteTenant(tenantId) ==
    LET found == tenantId \in DOMAIN dcSecrets
        database == IF found THEN dcSecrets[tenantId].database ELSE DcNoName
        role == IF found THEN dcSecrets[tenantId].user ELSE DcNoName
        error == IF ~found THEN "SecretNotFound"
                 ELSE IF database \notin dcDatabases THEN "Thrown"
                 ELSE Null
        ok == error = Null IN
    /\ dcDatabases' = IF ok THEN dcDatabases \ {database} ELSE dcDatabases
    /\ dcSecrets' = IF ok THEN MapRemove(dcSecrets, tenantId) ELSE dcSecrets
    /\ dcRoles' = IF ok THEN dcRoles \ {role} ELSE dcRoles
    /\ dcLast' = [DcNone EXCEPT !.op = "deleteTenant", !.tenantId = tenantId,
                                !.error = error, !.database = database, !.role = role]
    /\ UNCHANGED <<dcPrefix, dcPoolDb, dcAdminOut>>
    /\ UNCHANGED notDc

DcStep ==
    \/ \E t \in DcTenants, f \in DcFailures : DcCreateTenant(t, f)
    \/ \E t \in DcTenants : DcGetClientFor(t)
    \/ \E t \in DcTenants : DcEndTenant(t)
    \/ \E t \in DcTenants : DcDeleteTenant(t)

(***************************************************************************)
(* end() of the Management and the Tenants object of one resource.  Each   *)
(* constructor creates its own Pool (Redis: its own client); pg's          *)
(* Pool.end() rejects on a pool that was ended before, and so does quit()  *)
(* on a Redis client whose connection is closed.                           *)
(***************************************************************************)
MaxEnObjs == 4

EnTenants == {"t1", "t2"}
EnVariants == {"rls", "schema", "database", "redis"}
EnMapVariants == {"schema", "database"}
EnEndOps == {"Management.end", "Tenants.end", "Tenants.endTenant"}

EnOpen == [ended |-> FALSE]

\* faulty variant: every new Pool(...) gives the first pool again
SharedPool(objs) == 1

\* new Pool(config): an object of its own, the next in enObjs
NewPool(objs) == Len(objs) + 1

EnNone == [op |-> Null, tenantId |-> Null, error |-> Null, repeat |-> FALSE,
           objsBefore |-> <<>>, mapBefore |-> [t \in EnTenants |-> 0]]

\* both constructors: Management creates this.pool (adminRedis); the RLS
\* Tenants creates this.pool; Schema / Database Tenants start with an empty map
EnStart(variant) ==
    /\ enVariant = variant
    /\ enAdmin = NewPool(<<>>)
    /\ enShared = IF variant = "rls" THEN NewPool(<<EnOpen>>) ELSE 0
    /\ enObjs = IF variant = "rls" THEN <<EnOpen, EnOpen>> ELSE <<EnOpen>>
    /\ enMap = [t \in EnTenants |-> 0]
    /\ enLast = EnNone

EnInit == \E variant \in EnVariants : EnStart(variant)
EnIdle == EnStart("rls")

\* the record of a call: whether it repeats the call before it, which succeeded
EnCall(op, tenantId, error) ==
    [op |-> op, tenantId |-> tenantId, error |-> error,
     repeat |-> enLast.op = op /\ enLast.tenantId = tenantId /\ enLast.error = Null,
     objsBefore |-> enObjs, mapBefore |-> enMap]

\* pool.end() / redis.quit() on object i
EndError(objs, i) == IF objs[i].ended THEN "EndedTwice" ELSE Null
\* pool.connect() / pool.query() on object i
UseError(objs, i) == IF objs[i].ended THEN "PoolEnded" ELSE Null

\* Management.end(): await this.pool.end() (Redis: await this.adminRedis.quit())
EnManagementEnd ==
    /\ enObjs' = [enObjs EXCEPT ![enAdmin].ended = TRUE]
    /\ enLast' = EnCall("Management.end", Null, EndError(enObjs, enAdmin))
    /\ UNCHANGED <<enVariant, enAdmin, enShared, enMap>>
    /\ UNCHANGED notEn

\* a Management call that uses the administrative pool (createTenant, setup)
EnManagementQuery ==
    /\ enLast' = EnCall("Management.query", Null, UseError(enObjs, enAdmin))
    /\ UNCHANGED <<enVariant, enObjs, enAdmin, enShared, enMap>>
    /\ UNCHANGED notEn

\* Tenants.getClientFor(tenantId): the RLS class connects through this.pool;
\* Schema / Database take the pool of the map or create and store one
EnGetClientFor(tenantId) ==
    LET create == enVariant \in EnMapVariants /\ enMap[tenantId] = 0
        pool == IF enVariant = "rls" THEN enShared
                ELSE IF create THEN NewPool(enObjs) ELSE enMap[tenantId]
        objs == IF create THEN Append(enObjs, EnOpen) ELSE enObjs IN
    /\ enVariant # "redis"
    /\ create => Len(enObjs) < MaxEnObjs
    /\ enObjs' = objs
    /\ enMap' = IF create THEN [enMap EXCEPT ![tenantId] = pool] ELSE enMap
    /\ enLast' = EnCall("Tenants.getClientFor", tenantId, UseError(objs, pool))
    /\ UNCHANGED <<enVariant, enAdmin, enShared>>
    /\ UNCHANGED notEn

\* Tenants.end(): the RLS class awaits this.pool.end(); Schema / Database
\* end every pool of the map that is not ended
EnTenantsEnd ==
    /\ enVariant # "redis"
    /\ enObjs' = [i \in 1..Len(enObjs) |->
          IF \/ enVariant = "rls" /\ i = enShared
             \/ enVariant \in EnMapVariants /\ \E t \in EnTenants : enMap[t] = i
          THEN [enObjs[i] EXCEPT !.ended = TRUE] ELSE enObjs[i]]
    /\ enLast' = EnCall("Tenants.end", Null,
                        IF enVariant = "rls" THEN EndError(enObjs, enShared) ELSE Null)
    /\ UNCHANGED <<enVariant, enAdmin, enShared, enMap>>
    /\ UNCHANGED notEn

\* Tenants.end(tenantId): the pool of the map, when there is one, is ended
\* (pool.end() is awaited without looking at pool.ended) and then deleted
EnTenantsEndTenant(tenantId) ==
    LET pool == enMap[tenantId]
        error == IF pool = 0 THEN Null ELSE EndError(enObjs, pool) IN
    /\ enVariant \in EnMapVariants
    /\ enObjs' = IF pool = 0 THEN enObjs ELSE [enObjs EXCEPT ![pool].ended = TRUE]
    /\ enMap' = IF pool # 0 /\ error = Null THEN [enMap EXCEPT ![tenantId] = 0] ELSE enMap
    /\ enLast' = EnCall("Tenants.endTenant", tenantId, error)
    /\ UNCHANGED <<enVariant, enAdmin, enShared>>
    /\ UNCHANGED notEn

EnStep ==
    \/ EnManagementEnd
    \/ EnManagementQuery
    \/ \E t \in EnTenants : EnGetClientFor(t)
    \/ EnTenantsEnd
    \/ \E t \in EnTenants : EnTenantsEndTenant(t)

(***************************************************************************)
(* RedisAclManagement.createTenant for a tenant that may exist already:    *)
(* ACL SETUSER changes an existing user incrementally, and the descriptor  *)
(* goes to createSecret of the provider.                                   *)
(***************************************************************************)
MaxRcCreates == 3

RcTenants == {"a", "b"}
RcProviders == {"local", "vault"}
RcPasswords == 1..(MaxRcCreates + 1)

RcNoUser == [on |-> FALSE, passwords |-> {}, dangerous |-> FALSE]
RcNone == [op |-> Null, tenantId |-> Null, error |-> Null, repeat |-> FALSE,
           password |-> 0, dangerous |-> FALSE]

RcInit ==
    /\ rcProvider \in RcProviders
    /\ rcUsers = [t \in RcTenants |-> RcNoUser]
    /\ rcSecrets = EmptyMap
    /\ rcNext = 1
    /\ rcLast = RcNone

RcIdle ==
    /\ rcProvider = "local"
    /\ rcUsers = [t \in RcTenants |-> RcNoUser]
    /\ rcSecrets = EmptyMap
    /\ rcNext = 1
    /\ rcLast = RcNone

\* ACL SETUSER <user> on ><password> ~<prefix>* +@all [-@dangerous] on the
\* server: the user is created when missing; on an existing user the
\* password is added to its passwords, the key pattern is added (the same
\* one again), +@all allows every command and -@dangerous then removes the
\* dangerous ones
AclSetUser(user, password, enableDangerousCommands) ==
    [on |-> TRUE,
     passwords |-> user.passwords \cup {password},
     dangerous |-> enableDangerousCommands]

\* provider.createSecret: the local provider throws on a path that has a
\* secret; Vault writes a new version
CreateSecretError(provider, exists) ==
    IF provider = "local" /\ exists THEN "SecretExists" ELSE Null

\* RedisAclManagement.createTenant: generatePassword, ACL SETUSER, store
RcCreateTenant(enableDangerousCommands, tenantId) ==
    LET exists == tenantId \in DOMAIN rcSecrets
        error == CreateSecretError(rcProvider, exists) IN
    /\ rcNext <= MaxRcCreates
    /\ rcNext' = rcNext + 1
    /\ rcUsers' = [rcUsers EXCEPT ![tenantId] =
                      AclSetUser(@, rcNext, enableDangerousCommands)]
    /\ rcSecrets' = IF error = Null
                    THEN MapPut(rcSecrets, tenantId,
                                [username |-> tenantId, password |-> rcNext,
                                 keyPrefix |-> <<"tenant:", tenantId, ":">>])
                    ELSE rcSecrets
    /\ rcLast' = [op |-> "createTenant", tenantId |-> tenantId, error |-> error,
                  repeat |-> rcUsers[tenantId].on /\ exists,
                  password |-> rcNext, dangerous |-> enableDangerousCommands]
    /\ UNCHANGED rcProvider
    /\ UNCHANGED notRc

\* a client authenticates as the tenant's ACL user with a password
RcAuth(tenantId, password) ==
    /\ rcLast' = [RcNone EXCEPT !.op = "auth", !.tenantId = tenantId,
                                !.password = password,
                                !.error = IF rcUsers[tenantId].on
                                             /\ password \in rcUsers[tenantId].passwords
                                          THEN Null ELSE "WRONGPASS"]
    /\ UNCHANGED <<rcProvider, rcUsers, rcSecrets, rcNext>>
    /\ UNCHANGED notRc

RcStep ==
    \/ \E f \in BOOLEAN, t \in RcTenants : RcCreateTenant(f, t)
    \/ \E t \in RcTenants, p \in RcPasswords : RcAuth(t, p)

(***************************************************************************)
(* queryAs and withClientFor of the six Postgres Tenants classes, followed *)
(* through getClientFor, the query or callback, and the finally block:     *)
(* who releases the client, and how often.                                 *)
(***************************************************************************)
CrPlain == {"rls", "schema", "database"}
CrPgBouncer == {"pgb_rls", "pgb_schema", "pgb_database"}
CrVariants == CrPlain \cup CrPgBouncer
CrOps == {"queryAs", "withClientFor"}

CrIdleClient == [out |-> FALSE, doubleRelease |-> FALSE]
CrNoCall == [pc |-> "idle", op |-> Null, obtained |-> FALSE, gcReleases |-> 0,
             callerReleases |-> 0, bodyFailed |-> FALSE, error |-> Null]

CrInit ==
    /\ crVariant \in CrVariants
    /\ crMode \in (IF crVariant \in CrPlain THEN {"none"}
                   ELSE {"session_mode", "transaction_mode"})
    /\ crClient = CrIdleClient
    /\ crCall = CrNoCall

CrIdle ==
    /\ crVariant = "rls"
    /\ crMode = "none"
    /\ crClient = CrIdleClient
    /\ crCall = CrNoCall

\* client.release(): pg throws on a client that is not checked out
Release(client) ==
    IF client.out THEN [client EXCEPT !.out = FALSE]
    ELSE [client EXCEPT !.doubleRelease = TRUE]

\* whether getClientFor sends a statement after pool.connect(): the plain
\* Database class and PgBouncerDatabaseTenants in session_mode return the
\* client as it is
SendsStatement(variant, mode) ==
    ~(variant = "database" \/ (variant = "pgb_database" /\ mode = "session_mode"))

\* whether getClientFor releases the client when that statement fails: the
\* plain classes and transaction_mode have a catch that releases;
\* session_mode of the PgBouncer classes has none
ReleasesOnFailure(variant, mode) ==
    variant \in CrPlain \/ mode = "transaction_mode"

\* faulty variant: the client is released only when the query succeeded
AfterBodyOnSuccess(failed) == IF failed THEN "done" ELSE "finally"

\* try { query or callback } finally { await client.release() }
AfterBody(failed) == "finally"

\* queryAs / withClientFor is called: getClientFor's pool.connect()
CrConnect(op) ==
    /\ crCall.pc = "idle"
    /\ ~crClient.out
    /\ crClient' = [crClient EXCEPT !.out = TRUE]
    /\ crCall' = [CrNoCall EXCEPT !.op = op,
                     !.pc = IF SendsStatement(crVariant, crMode) THEN "settings" ELSE "body",
                     !.obtained = ~SendsStatement(crVariant, crMode)]
    /\ UNCHANGED <<crVariant, crMode>>
    /\ UNCHANGED notCr

\* getClientFor's statement (settings; BEGIN in transaction_mode): on
\* success the client is returned; on failure the error is thrown to the
\* caller of queryAs, after a release where getClientFor has a catch
CrSettings(fails) ==
    /\ crCall.pc = "settings"
    /\ crClient' = IF fails /\ ReleasesOnFailure(crVariant, crMode)
                   THEN Release(crClient) ELSE crClient
    /\ crCall' = IF fails
                 THEN [crCall EXCEPT !.pc = "done", !.error = "SettingsError",
                          !.gcReleases = IF ReleasesOnFailure(crVariant, crMode)
                                         THEN @ + 1 ELSE @]
                 ELSE [crCall EXCEPT !.pc = "body", !.obtained = TRUE]
    /\ UNCHANGED <<crVariant, crMode>>
    /\ UNCHANGED notCr

\* the query of queryAs (with COMMIT or ROLLBACK in transaction_mode) or the
\* callback of withClientFor
CrBody(fails) ==
    /\ crCall.pc = "body"
    /\ crCall' = [crCall EXCEPT !.pc = AfterBody(fails), !.bodyFailed = fails,
                                !.error = IF fails THEN "BodyError" ELSE Null]
    /\ UNCHANGED <<crVariant, crMode, crClient>>
    /\ UNCHANGED notCr

\* finally { await client.release() }
CrFinally ==
    /\ crCall.pc = "finally"
    /\ crClient' = Release(crClient)
    /\ crCall' = [crCall EXCEPT !.pc = "done", !.callerReleases = @ + 1]
    /\ UNCHANGED <<crVariant, crMode>>
    /\ UNCHANGED notCr

\* the call has returned or thrown; a client getClientFor left checked out
\* stays so, and the next call takes another client of the pool
CrReturn ==
    /\ crCall.pc = "done"
    /\ crCall' = CrNoCall
    /\ crClient' = CrIdleClient
    /\ UNCHANGED <<crVariant, crMode>>
    /\ UNCHANGED notCr

CrStep ==
    \/ \E o \in CrOps : CrConnect(o)
    \/ \E f \in BOOLEAN : CrSettings(f)
    \/ \E f \in BOOLEAN : CrBody(f)
    \/ CrFinally
    \/ CrReturn

(***************************************************************************)
(* createTenant and deleteTenant of PostgresSchemaManagement,              *)
(* PostgresDatabaseManagement and RedisAclManagement when one of their     *)
(* awaited steps fails.  A call runs its steps in order up to the failing  *)
(* one; a step fails for a reason of the state (a name that exists, a      *)
(* descriptor that is missing) or for an outside reason (failAt).          *)
(***************************************************************************)
FpTenants == {"a", "b"}
FpStrategies == {"schema", "database", "redis_acl"}

\* the awaited steps of createTenant, in the order of the code
FpCreateSteps(strategy) ==
    IF strategy = "schema"
    THEN <<"connect", "begin", "schema", "role", "commit", "store">>
    ELSE IF strategy = "database"
    THEN <<"connect", "database", "role", "store", "adminConnect", "grants">>
    ELSE <<"password", "setuser", "store">>

\* the awaited steps of deleteTenant, in the order of the code
FpDeleteSteps(strategy) ==
    IF strategy = "schema" THEN <<"get", "connect", "drop">>
    ELSE IF strategy = "database" THEN <<"get", "dropDatabase", "remove", "dropRole">>
    ELSE <<"keys", "deluser", "remove">>

\* what a fully provisioned tenant has on the server
FpResources(strategy) ==
    IF strategy = "schema" THEN {"schema", "role"}
    ELSE IF strategy = "database" THEN {"database", "role", "grants"}
    ELSE {"user"}

FpStepNames == {"connect", "begin", "schema", "role", "commit", "store", "database",
                "adminConnect", "grants", "password", "setuser", "get", "drop",
                "dropDatabase", "remove", "dropRole", "keys", "deluser"}
FpFailures == FpStepNames \cup {"none"}

\* a step of createTenant that fails because of the state: CREATE SCHEMA,
\* CREATE DATABASE and CREATE ROLE on a name that exists; ACL SETUSER
\* updates a user that exists
FpCreateRefused(strategy, exists, step) ==
    /\ strategy # "redis_acl"
    /\ step \in {"schema", "database", "role"}
    /\ step \in exists

\* a step of deleteTenant that fails because of the state: secretsManager.get
\* without a descriptor, DROP SCHEMA / DROP DATABASE / DROP ROLE (none has
\* IF EXISTS) on a name that does not exist; ACL DELUSER of an absent user
\* answers 0
FpDeleteRefused(strategy, exists, stored, step) ==
    \/ step = "get" /\ ~stored
    \/ step = "drop" /\ "schema" \notin exists
    \/ step = "dropDatabase" /\ "database" \notin exists
    \/ step = "dropRole" /\ "role" \notin exists

\* position of the first failing step, Len(steps) + 1 when every step succeeds
RECURSIVE FpFirstFailure(_, _, _, _)
FpFirstFailure(steps, refused, failAt, i) ==
    IF i > Len(steps) THEN i
    ELSE IF steps[i] = failAt \/ steps[i] \in refused THEN i
    ELSE FpFirstFailure(steps, refused, failAt, i + 1)

\* the steps that ran to their end
FpDone(steps, k) == {steps[i] : i \in 1..(k - 1)}

\* the server after createTenant.  Schema: the statements between BEGIN and
\* COMMIT take effect with COMMIT, the catch block's ROLLBACK undoes them
\* before it and does nothing after it.  Database: no transaction, each
\* statement stays.  Redis ACL: ACL SETUSER.
FpCreated(strategy, exists, done) ==
    IF strategy = "schema"
    THEN (IF "commit" \in done THEN exists \cup {"schema", "role"} ELSE exists)
    ELSE IF strategy = "database"
    THEN exists \cup (done \cap {"database", "role", "grants"})
    ELSE (IF "setuser" \in done THEN exists \cup {"user"} ELSE exists)

\* the server after deleteTenant.  Schema: DROP SCHEMA CASCADE only.
\* Database: DROP DATABASE (the schema grants go with it), DROP ROLE.
\* Redis ACL: ACL DELUSER.
FpDeleted(strategy, exists, done) ==
    IF strategy = "schema"
    THEN (IF "drop" \in done THEN exists \ {"schema"} ELSE exists)
    ELSE IF strategy = "database"
    THEN (exists \ (IF "dropDatabase" \in done THEN {"database", "grants"} ELSE {}))
             \ (IF "dropRole" \in done THEN {"role"} ELSE {})
    ELSE (IF "deluser" \in done THEN exists \ {"user"} ELSE exists)

FpNone == [op |-> Null, tenantId |-> Null, failedAt |-> "none",
           existsBefore |-> {}, storedBefore |-> FALSE]

FpStart(strategy) ==
    /\ fpStrategy = strategy
    /\ fpExists = [t \in FpTenants |-> {}]
    /\ fpStored = {}
    /\ fpLast = FpNone

FpInit == \E strategy \in FpStrategies : FpStart(strategy)
FpIdle == FpStart("schema")

FpCall(op, tenantId, steps, k) ==
    [op |-> op, tenantId |-> tenantId,
     failedAt |-> IF k > Len(steps) THEN "none" ELSE steps[k],
     existsBefore |-> fpExists[tenantId], storedBefore |-> tenantId \in fpStored]

\* Management.createTenant(tenantId)
FpCreateTenant(tenantId, failAt) ==
    LET steps == FpCreateSteps(fpStrategy)
        refused == {s \in FpStepNames :
                        FpCreateRefused(fpStrategy, fpExists[tenantId], s)}
        k == FpFirstFailure(steps, refused, failAt, 1)
        done == FpDone(steps, k) IN
    /\ failAt = "none" \/ \E i \in 1..Len(steps) : steps[i] = failAt
    /\ fpExists' = [fpExists EXCEPT ![tenantId] = FpCreated(fpStrategy, @, done)]
    /\ fpStored' = IF "store" \in done THEN fpStored \cup {tenantId} ELSE fpStored
    /\ fpLast' = FpCall("createTenant", tenantId, steps, k)
    /\ UNCHANGED fpStrategy
    /\ UNCHANGED notFp

\* Management.deleteTenant(tenantId)
FpDeleteTenant(tenantId, failAt) ==
    LET steps == FpDeleteSteps(fpStrategy)
        refused == {s \in FpStepNames :
                        FpDeleteRefused(fpStrategy, fpExists[tenantId],
                                        tenantId \in fpStored, s)}
        k == FpFirstFailure(steps, refused, failAt, 1)
        done == FpDone(steps, k) IN
    /\ failAt = "none" \/ \E i \in 1..Len(steps) : steps[i] = failAt
    /\ fpExists' = [fpExists EXCEPT ![tenantId] = FpDeleted(fpStrategy, @, done)]
    /\ fpStored' = IF "remove" \in done THEN fpStored \ {tenantId} ELSE fpStored
    /\ fpLast' = FpCall("deleteTenant", tenantId, steps, k)
    /\ UNCHANGED fpStrategy
    /\ UNCHANGED notFp

FpStep ==
    \/ \E t \in FpTenants, f \in FpFailures : FpCreateTenant(t, f)
    \/ \E t \in FpTenants, f \in FpFailures : FpDeleteTenant(t, f)

(***************************************************************************)
(* The settings PostgresSchemaTenants.getClientFor and                     *)
(* PgBouncerSchemaTenants.getClientFor put on the client they return.  A   *)
(* connection keeps session settings after release; transaction-local      *)
(* settings end with the transaction.                                      *)
(***************************************************************************)
SsTenants == {<<"a">>, <<"b">>}
SsVariants == {"plain", "pgbouncer"}
\* options.provision.schema.prefix of the Management that created the tenant
SsPrefixes == {DEFAULT_TENANT_SCHEMA_PREFIX, <<"app_">>}
SsUnset == <<>>
SsNoSettings == [role |-> SsUnset, path |-> SsUnset]
SsNoDescriptor == [user |-> SsUnset, schema |-> SsUnset, poolMode |-> Null]
SsIdleConn == [pc |-> "idle", login |-> SsUnset, session |-> SsNoSettings,
               local |-> SsNoSettings, txn |-> FALSE]
SsNone == [op |-> Null, tenantId |-> SsUnset, error |-> Null, returned |-> FALSE]

SsStart(variant, mode) ==
    /\ ssVariant = variant
    /\ ssMode = mode
    /\ ssStore = [t \in SsTenants |-> SsNoDescriptor]
    /\ ssConn = [t \in SsTenants |-> SsIdleConn]
    /\ ssLast = SsNone

SsInit ==
    \/ SsStart("plain", Null)
    \/ \E mode \in PgbValidModes : SsStart("pgbouncer", mode)
SsIdle == SsStart("plain", Null)

\* faulty variant: the schema is recomputed from the tenant id and the
\* default prefix
SearchPathDefault(tenantId, descriptor) == getSchemaNameForTenant(tenantId)

\* const { schema } = poolConfig / this.tenantsSchemas.get(tenantId): the
\* schema named in the descriptor
SearchPathFor(tenantId, descriptor) == descriptor.schema

\* the set_config calls of the settings statement: the plain class sets role
\* and search_path, the PgBouncer class search_path only
SchemaSettings(variant, tenantId, descriptor) ==
    [role |-> IF variant = "plain" THEN generateDefaultTenantRoleName(tenantId)
              ELSE SsUnset,
     path |-> SearchPathFor(tenantId, descriptor)]

\* the third argument of set_config: true (transaction-local) after BEGIN in
\* transaction_mode, false (session) otherwise
SettingsScope(variant, mode) ==
    IF variant = "pgbouncer" /\ mode = "transaction_mode" THEN "local" ELSE "session"

\* set_config replaces the settings it names
SsApply(old, new) ==
    [role |-> IF new.role # SsUnset THEN new.role ELSE old.role,
     path |-> IF new.path # SsUnset THEN new.path ELSE old.path]

\* the role statements run as: a transaction-local role, else the session's
\* role setting, else the user the connection logged in as
EffectiveRole(conn) ==
    IF conn.local.role # SsUnset THEN conn.local.role
    ELSE IF conn.session.role # SsUnset THEN conn.session.role
    ELSE conn.login

\* the checks PgBouncerSchemaTenants.getClientFor makes before pool.connect()
SsPrecheck(variant, descriptor) ==
    IF variant = "plain" THEN Null
    ELSE IF descriptor.poolMode \notin PgbValidModes THEN "InvalidMode"
    ELSE IF descriptor.schema = SsUnset THEN "NoSchema"
    ELSE Null

\* PostgresSchemaManagement.createTenant (PgBouncerSchemaManagement calls
\* it): the descriptor is the pool config with user, password, database and
\* schema
SsCreateTenant(tenantId, prefix) ==
    /\ ssStore[tenantId] = SsNoDescriptor
    /\ ssStore' = [ssStore EXCEPT ![tenantId] =
            [user |-> generateDefaultTenantRoleName(tenantId),
             schema |-> prefix \o tenantId, poolMode |-> ssMode]]
    /\ ssLast' = [SsNone EXCEPT !.op = "createTenant", !.tenantId = tenantId]
    /\ UNCHANGED <<ssVariant, ssMode, ssConn>>
    /\ UNCHANGED notSs

\* getClientFor(tenantId): the descriptor is read, the pool connects as the
\* descriptor's user, the settings statement is sent.  When it fails: the
\* plain class releases the client and throws; the PgBouncer class in
\* session_mode throws with the client checked out, in transaction_mode
\* sends ROLLBACK, releases and throws.
SsGetClientFor(tenantId, fails) ==
    LET descriptor == ssStore[tenantId]
        conn == [ssConn[tenantId] EXCEPT !.login = descriptor.user]
        precheck == SsPrecheck(ssVariant, descriptor)
        scope == SettingsScope(ssVariant, descriptor.poolMode)
        settings == SchemaSettings(ssVariant, tenantId, descriptor)
        held == IF scope = "local"
                THEN [conn EXCEPT !.pc = "held", !.txn = TRUE,
                                  !.local = SsApply(@, settings)]
                ELSE [conn EXCEPT !.pc = "held", !.session = SsApply(@, settings)] IN
    /\ descriptor # SsNoDescriptor
    /\ ssConn[tenantId].pc = "idle"
    /\ ssConn' = [ssConn EXCEPT ![tenantId] =
            IF precheck # Null THEN @
            ELSE IF ~fails THEN held
            ELSE IF ssVariant = "pgbouncer" /\ scope = "session"
            THEN [conn EXCEPT !.pc = "leaked"]
            ELSE conn]
    /\ ssLast' = [op |-> "getClientFor", tenantId |-> tenantId,
                  error |-> IF precheck # Null THEN precheck
                            ELSE IF fails THEN "SettingsError" ELSE Null,
                  returned |-> precheck = Null /\ ~fails]
    /\ UNCHANGED <<ssVariant, ssMode, ssStore>>
    /\ UNCHANGED notSs

\* the caller is done with the client: COMMIT of the transaction it was
\* given, client.release()
SsRelease(tenantId) ==
    /\ ssConn[tenantId].pc = "held"
    /\ ssConn' = [ssConn EXCEPT ![tenantId] =
            [@ EXCEPT !.pc = "idle", !.txn = FALSE, !.local = SsNoSettings]]
    /\ ssLast' = [SsNone EXCEPT !.op = "release", !.tenantId = tenantId]
    /\ UNCHANGED <<ssVariant, ssMode, ssStore>>
    /\ UNCHANGED notSs

SsStep ==
    \/ \E t \in SsTenants, p \in SsPrefixes : SsCreateTenant(t, p)
    \/ \E t \in SsTenants, f \in BOOLEAN : SsGetClientFor(t, f)
    \/ \E t \in SsTenants : SsRelease(t)

(***************************************************************************)
(* The poolMode a descriptor of the PgBouncer Database strategy carries:   *)
(* PgBouncerDatabaseManagement.createTenant stores its pool config (with   *)
(* its poolMode) in the descriptor, PgBouncerDatabaseTenants.getClientFor  *)
(* branches on the descriptor's poolMode.  Management instances with       *)
(* different pool configs write to one secret store.                       *)
(***************************************************************************)
DmTenants == {"a", "b", "c"}
DmAbsent == "absent"
DmNone == [op |-> Null, tenantId |-> Null, mode |-> Null, stored |-> FALSE,
           branch |-> "none", error |-> Null]

DmInit ==
    /\ dmStore = [t \in DmTenants |-> DmAbsent]
    /\ dmLast = DmNone
DmIdle == DmInit

\* faulty variant: the descriptor is stored without the pool config's mode
DescriptorModeDropped(configMode) == Null

\* const clientConfig = { ...this.poolConfig, user, password, database }
DescriptorMode(configMode) == configMode

\* the branch of PgBouncerDatabaseTenants.getClientFor / queryAs
DmBranch(mode) ==
    IF PoolMode(mode) = "session_mode" THEN "session_mode"
    ELSE IF PoolMode(mode) = "transaction_mode" THEN "transaction_mode"
    ELSE "invalid"

\* PgBouncerDatabaseManagement.createTenant of a Management whose pool config
\* has poolMode = mode: the guard, then PostgresDatabaseManagement.createTenant
\* (CREATE DATABASE fails for a tenant that is provisioned)
DmCreateTenant(mode, tenantId) ==
    LET error == IF PgbDbRejects(mode) THEN "ConfigError"
                 ELSE IF dmStore[tenantId] # DmAbsent THEN "SqlError"
                 ELSE Null IN
    /\ dmStore' = IF error = Null
                  THEN [dmStore EXCEPT ![tenantId] = DescriptorMode(mode)]
                  ELSE dmStore
    /\ dmLast' = [DmNone EXCEPT !.op = "createTenant", !.tenantId = tenantId,
                                !.mode = mode, !.stored = (error = Null),
                                !.error = error]
    /\ UNCHANGED notDm

\* PgBouncerDatabaseManagement.deleteTenant
DmDeleteTenant(mode, tenantId) ==
    LET error == IF PgbDbRejects(mode) THEN "ConfigError"
                 ELSE IF dmStore[tenantId] = DmAbsent THEN "SecretNotFound"
                 ELSE Null IN
    /\ dmStore' = IF error = Null THEN [dmStore EXCEPT ![tenantId] = DmAbsent]
                  ELSE dmStore
    /\ dmLast' = [DmNone EXCEPT !.op = "deleteTenant", !.tenantId = tenantId,
                                !.mode = mode, !.error = error]
    /\ UNCHANGED notDm

\* PgBouncerDatabaseTenants.getClientFor: initTenantPool reads the descriptor
\* and records its poolMode, getClientFor branches on it
DmGetClientFor(tenantId) ==
    LET found == dmStore[tenantId] # DmAbsent
        branch == IF found THEN DmBranch(dmStore[tenantId]) ELSE "none" IN
    /\ dmLast' = [DmNone EXCEPT !.op = "getClientFor", !.tenantId = tenantId,
                                !.mode = IF found THEN dmStore[tenantId] ELSE Null,
                                !.branch = branch,
                                !.error = IF ~found THEN "SecretNotFound"
                                          ELSE IF branch = "invalid" THEN "InvalidMode"
                                          ELSE Null]
    /\ UNCHANGED dmStore
    /\ UNCHANGED notDm

DmStep ==
    \/ \E mode \in PgbModes, t \in DmTenants : DmCreateTenant(mode, t)
    \/ \E mode \in PgbModes, t \in DmTenants : DmDeleteTenant(mode, t)
    \/ \E t \in DmTenants : DmGetClientFor(t)

InitRedis == RedisInit /\ RlsIdle /\ ProvIdle /\ PgbIdle /\ TpIdle /\ PmIdle /\ PdIdle /\ RaIdle /\ RmIdle /\ SpIdle /\ SmIdle /\ GdIdle /\ DcIdle /\ EnIdle /\ RcIdle /\ CrIdle /\ FpIdle /\ SsIdle /\ DmIdle
SpecRedis == InitRedis /\ [][RedisStep]_vars

InitRls == RlsInit /\ RedisInit /\ ProvIdle /\ PgbIdle /\ TpIdle /\ PmIdle /\ PdIdle /\ RaIdle /\ RmIdle /\ SpIdle /\ SmIdle /\ GdIdle /\ DcIdle /\ EnIdle /\ RcIdle /\ CrIdle /\ FpIdle /\ SsIdle /\ DmIdle
SpecRls == InitRls /\ [][RlsStep]_vars

InitProv == ProvInit /\ RedisInit /\ RlsIdle /\ PgbIdle /\ TpIdle /\ PmIdle /\ PdIdle /\ RaIdle /\ RmIdle /\ SpIdle /\ SmIdle /\ GdIdle /\ DcIdle /\ EnIdle /\ RcIdle /\ CrIdle /\ FpIdle /\ SsIdle /\ DmIdle
SpecProv == InitProv /\ [][ProvStep]_vars

InitPgb == PgbInit /\ RedisInit /\ RlsIdle /\ ProvIdle /\ TpIdle /\ PmIdle /\ PdIdle /\ RaIdle /\ RmIdle /\ SpIdle /\ SmIdle /\ GdIdle /\ DcIdle /\ EnIdle /\ RcIdle /\ CrIdle /\ FpIdle /\ SsIdle /\ DmIdle
SpecPgb == InitPgb /\ [][PgbStep]_vars

InitPools == TpInit /\ RedisInit /\ RlsIdle /\ ProvIdle /\ PgbIdle /\ PmIdle /\ PdIdle /\ RaIdle /\ RmIdle /\ SpIdle /\ SmIdle /\ GdIdle /\ DcIdle /\ EnIdle /\ RcIdle /\ CrIdle /\ FpIdle /\ SsIdle /\ DmIdle
SpecPools == InitPools /\ [][TpStep]_vars

InitMode == PmInit /\ RedisInit /\ RlsIdle /\ ProvIdle /\ PgbIdle /\ TpIdle /\ PdIdle /\ RaIdle /\ RmIdle /\ SpIdle /\ SmIdle /\ GdIdle /\ DcIdle /\ EnIdle /\ RcIdle /\ CrIdle /\ FpIdle /\ SsIdle /\ DmIdle
SpecMode == InitMode /\ [][PmStep]_vars

InitPgbDb == PdInit /\ RedisInit /\ RlsIdle /\ PgbIdle /\ TpIdle /\ PmIdle /\ RaIdle /\ RmIdle /\ SpIdle /\ SmIdle /\ GdIdle /\ DcIdle /\ EnIdle /\ RcIdle /\ CrIdle /\ FpIdle /\ SsIdle /\ DmIdle
SpecPgbDb == InitPgbDb /\ [][PdStep]_vars

InitRedisAcl == RedisInit /\ RaInit /\ RlsIdle /\ ProvIdle /\ PgbIdle /\ TpIdle /\ PmIdle /\ PdIdle /\ RmIdle /\ SpIdle /\ SmIdle /\ GdIdle /\ DcIdle /\ EnIdle /\ RcIdle /\ CrIdle /\ FpIdle /\ SsIdle /\ DmIdle
SpecRedisDelete == InitRedisAcl /\ [][RaDeleteStep]_vars
SpecRedisCommands == InitRedisAcl /\ [][RaCommandStep]_vars

InitRlsMgmt == RmInit /\ RedisInit /\ RlsIdle /\ ProvIdle /\ PgbIdle /\ TpIdle /\ PmIdle /\ PdIdle /\ RaIdle /\ SpIdle /\ SmIdle /\ GdIdle /\ DcIdle /\ EnIdle /\ RcIdle /\ CrIdle /\ FpIdle /\ SsIdle /\ DmIdle
SpecRlsSetup == InitRlsMgmt /\ [][RmSetupStep]_vars
SpecRlsAuto == InitRlsMgmt /\ [][RmAutoStep]_vars

InitPath == SpInit /\ RedisInit /\ RlsIdle /\ ProvIdle /\ PgbIdle /\ TpIdle /\ PmIdle /\ PdIdle /\ RaIdle /\ RmIdle /\ SmIdle /\ GdIdle /\ DcIdle /\ EnIdle /\ RcIdle /\ CrIdle /\ FpIdle /\ SsIdle /\ DmIdle
SpecPath == InitPath /\ [][SpStep]_vars

InitSecrets == SmInit /\ RedisInit /\ RlsIdle /\ ProvIdle /\ PgbIdle /\ TpIdle /\ PmIdle /\ PdIdle /\ RaIdle /\ RmIdle /\ SpIdle /\ GdIdle /\ DcIdle /\ EnIdle /\ RcIdle /\ CrIdle /\ FpIdle /\ SsIdle /\ DmIdle
SpecSecrets == InitSecrets /\ [][SmStep]_vars

InitLookup == GdInit /\ RedisInit /\ RlsIdle /\ ProvIdle /\ PgbIdle /\ TpIdle /\ PmIdle /\ PdIdle /\ RaIdle /\ RmIdle /\ SpIdle /\ SmIdle /\ DcIdle /\ EnIdle /\ RcIdle /\ CrIdle /\ FpIdle /\ SsIdle /\ DmIdle
SpecLookup == InitLookup /\ [][GdStep]_vars

InitDbNames == DcInit /\ RedisInit /\ RlsIdle /\ ProvIdle /\ PgbIdle /\ TpIdle /\ PmIdle /\ PdIdle /\ RaIdle /\ RmIdle /\ SpIdle /\ SmIdle /\ GdIdle /\ EnIdle /\ RcIdle /\ CrIdle /\ FpIdle /\ SsIdle /\ DmIdle
SpecDbNames == InitDbNames /\ [][DcStep]_vars

InitEnds == EnInit /\ RedisInit /\ RlsIdle /\ ProvIdle /\ PgbIdle /\ TpIdle /\ PmIdle /\ PdIdle /\ RaIdle /\ RmIdle /\ SpIdle /\ SmIdle /\ GdIdle /\ DcIdle /\ RcIdle /\ CrIdle /\ FpIdle /\ SsIdle /\ DmIdle
SpecEnds == InitEnds /\ [][EnStep]_vars

InitRedisCreate == RcInit /\ RedisInit /\ RlsIdle /\ ProvIdle /\ PgbIdle /\ TpIdle /\ PmIdle /\ PdIdle /\ RaIdle /\ RmIdle /\ SpIdle /\ SmIdle /\ GdIdle /\ DcIdle /\ EnIdle /\ CrIdle /\ FpIdle /\ SsIdle /\ DmIdle
SpecRedisCreate == InitRedisCreate /\ [][RcStep]_vars

InitRelease == CrInit /\ RedisInit /\ RlsIdle /\ ProvIdle /\ PgbIdle /\ TpIdle /\ PmIdle /\ PdIdle /\ RaIdle /\ RmIdle /\ SpIdle /\ SmIdle /\ GdIdle /\ DcIdle /\ EnIdle /\ RcIdle /\ FpIdle /\ SsIdle /\ DmIdle
SpecRelease == InitRelease /\ [][CrStep]_vars

InitFailures == FpInit /\ RedisInit /\ RlsIdle /\ ProvIdle /\ PgbIdle /\ TpIdle /\ PmIdle /\ PdIdle /\ RaIdle /\ RmIdle /\ SpIdle /\ SmIdle /\ GdIdle /\ DcIdle /\ EnIdle /\ RcIdle /\ CrIdle /\ SsIdle /\ DmIdle
SpecFailures == InitFailures /\ [][FpStep]_vars

InitSchemaSettings == SsInit /\ RedisInit /\ RlsIdle /\ ProvIdle /\ PgbIdle /\ TpIdle /\ PmIdle /\ PdIdle /\ RaIdle /\ RmIdle /\ SpIdle /\ SmIdle /\ GdIdle /\ DcIdle /\ EnIdle /\ RcIdle /\ CrIdle /\ FpIdle /\ DmIdle
SpecSchemaSettings == InitSchemaSettings /\ [][SsStep]_vars

InitDescriptorMode == DmInit /\ RedisInit /\ RlsIdle /\ ProvIdle /\ PgbIdle /\ TpIdle /\ PmIdle /\ PdIdle /\ RaIdle /\ RmIdle /\ SpIdle /\ SmIdle /\ GdIdle /\ DcIdle /\ EnIdle /\ RcIdle /\ CrIdle /\ FpIdle /\ SsIdle
SpecDescriptorMode == InitDescriptorMode /\ [][DmStep]_vars

(***************************************************************************)
(* C1: Redis isolation. For distinct tenant ids A and B, a value written   *)
(* through A's client is never returned by a read through B's client: a    *)
(* tenant's GET returns null or a value that tenant wrote itself.          *)
(***************************************************************************)
C1_RedisIsolation ==
    redisLast.result # RedisNil => redisLast.result = redisLast.reader

C3_RlsWriteRejection ==
    /\ rlsLast.foreignWrite => (rlsLast.rejected /\ ~rlsLast.wrote)
    /\ ~rlsLast.touchedOthers

\* a foreign write was attempted and rejected while another tenant had rows
C3_Witness ==
    /\ rlsLast.foreignWrite /\ rlsLast.rejected
    /\ \E r \in rlsRows : r.tenant # rlsLast.caller

(***************************************************************************)
(* C4: delete/recreate boundary (Schema and Database). After               *)
(* createTenant(t), writes through t's client and deleteTenant(t), the     *)
(* second createTenant(t) succeeds, and t's dataset is then empty.         *)
(***************************************************************************)
C4_DeleteRecreate ==
    \A t \in ProvTenants :
        /\ provSeq[t] # "recreateFailed"
        /\ provSeq[t] = "recreated" => provData[t] = {}

(***************************************************************************)
(* C5: PgBouncer transaction_mode, concurrent queryAs calls for one        *)
(* tenant.  Each call's query runs in a transaction that call began, on a  *)
(* connection no other call in flight holds; no query sees a write another *)
(* call has not committed; a call whose query failed has none of its       *)
(* writes committed.                                                       *)
(***************************************************************************)
PgbInFlight(q) == pgbCall[q].pc \notin {"new", "done"}
PgbRan(q, stmt) == \E i \in 1..Len(pgbCall[q].log) : pgbCall[q].log[i] = stmt

C5_TransactionIsolation ==
    pgbMode = "transaction_mode" =>
        /\ \A q1, q2 \in PgbCalls :
              (q1 # q2 /\ PgbInFlight(q1) /\ PgbInFlight(q2))
                  => pgbCall[q1].conn # pgbCall[q2].conn
        /\ \A q \in PgbCalls :
              pgbCall[q].kind = "queryAs" =>
                  /\ PgbRan(q, "QUERY") => pgbCall[q].ownTxn
                  /\ ~pgbCall[q].dirty
                  /\ pgbCall[q].cause = "QueryError" => q \notin pgbCommitted

\* two calls hold uncommitted writes at once while a third call's query has
\* failed and was rolled back
C5_Witness ==
    /\ pgbMode = "transaction_mode"
    /\ \E q1, q2, q3 \in PgbCalls :
          /\ q1 # q2
          /\ pgbCall[q1].pc = "commit" /\ pgbCall[q1].kind = "queryAs"
          /\ pgbCall[q2].pc = "commit" /\ pgbCall[q2].kind = "queryAs"
          /\ pgbCall[q3].pc = "done" /\ pgbCall[q3].cause = "QueryError"

(***************************************************************************)
(* C8: transaction-mode protocol order.  In a queryAs call the statements  *)
(* on the checked-out connection are BEGIN, the transaction-local settings *)
(* (RLS, Schema), the tenant query, COMMIT, in that order: the query comes *)
(* after BEGIN and the settings, COMMIT after the query, a call that       *)
(* succeeds has issued exactly these, and the connection is released only  *)
(* after COMMIT or ROLLBACK.                                               *)
(***************************************************************************)
PgbPos(log, stmt) == CHOOSE i \in 1..Len(log) : log[i] = stmt
PgbBefore(q, a, b) ==
    /\ PgbRan(q, a)
    /\ PgbPos(pgbCall[q].log, a) < PgbPos(pgbCall[q].log, b)

C9_FailurePropagation ==
    \A q \in PgbCalls :
        (/\ pgbMode = "transaction_mode"
         /\ pgbCall[q].kind = "queryAs"
         /\ pgbCall[q].pc = "done"
         /\ pgbCall[q].cause \in {"QueryError", "CommitError"})
            => /\ pgbCall[q].rollbacks = 1
               /\ pgbCall[q].delivered = pgbCall[q].cause

\* a call whose COMMIT failed and whose ROLLBACK then failed too has ended
C9_Witness ==
    \E q \in PgbCalls :
        /\ pgbMode = "transaction_mode"
        /\ pgbCall[q].pc = "done"
        /\ pgbCall[q].cause = "CommitError"
        /\ pgbCall[q].rbFailed

(***************************************************************************)
(* C10: invalid pool mode.  When the pooling mode is missing or is neither *)
(* session_mode nor transaction_mode, getClientFor and queryAs of every    *)
(* PgBouncer Tenants variant fail with an error: no client is returned, no *)
(* statement is run, and the mode is not defaulted.                        *)
(***************************************************************************)
C10_InvalidMode ==
    pgbMode \notin PgbValidModes =>
        \A q \in PgbCalls :
            /\ pgbCall[q].pc \in {"new", "done"}
            /\ pgbCall[q].pc = "done" => pgbCall[q].delivered = "InvalidMode"
            /\ pgbCall[q].log = <<>>
            /\ ~pgbCall[q].returned

\* with the mode missing, a queryAs and a getClientFor call have both failed
C10_Witness ==
    /\ pgbMode = Null
    /\ \E q1, q2 \in PgbCalls :
          /\ pgbCall[q1].kind = "queryAs" /\ pgbCall[q1].delivered = "InvalidMode"
          /\ pgbCall[q2].kind = "getClientFor" /\ pgbCall[q2].delivered = "InvalidMode"

(***************************************************************************)
(* C6: pool uniqueness.  In one Tenants instance (Schema, Database and     *)
(* their PgBouncer variants), as long as the getClientFor calls have been  *)
(* sequential, at most one pool has been created per tenant id since the   *)
(* last end(tenantId).                                                     *)
(***************************************************************************)
C6_PoolUniqueness ==
    (tpVariant \in TpMapVariants /\ tpSequential) =>
        \A t \in TpTenants : tpCreated[t] <= 1

(***************************************************************************)
(* C7: no leaked pools.  When end() has completed, with no getClientFor    *)
(* call in flight, every pool the Tenants instance ever created is ended.  *)
(***************************************************************************)
C7_NoLeakedPools ==
    (tpAfterEnd /\ \A q \in TpCalls : tpCall[q].pc = "idle") =>
        \A i \in 1..Len(tpPools) : tpPools[i].ended

(***************************************************************************)
(* C11: pool mode is fixed.  The mode a call's getClientFor uses to decide *)
(* on BEGIN is the mode recorded when the call's pool was created, and the *)
(* mode queryAs uses to decide on COMMIT is that same mode, whatever calls *)
(* and descriptor updates interleave.                                      *)
(***************************************************************************)
C11_PoolModeFixed ==
    \A q \in PmCalls :
        /\ pmCall[q].beginMode # Null => pmCall[q].beginMode = pmCall[q].poolMode
        /\ pmCall[q].commitMode # Null => pmCall[q].commitMode = pmCall[q].beginMode

(***************************************************************************)
(* C12: a createTenant or deleteTenant call on a PgBouncerDatabase-        *)
(* Management whose poolMode is transaction_mode fails with the            *)
(* configuration error, before any SQL statement and before any call to    *)
(* the secret store, and leaves databases, roles and descriptors as they   *)
(* were.                                                                   *)
(***************************************************************************)
C12_TransactionModeRejected ==
    pdLast.mode = "transaction_mode" =>
        /\ pdLast.error = "ConfigError"
        /\ ~pdLast.sql
        /\ ~pdLast.secretCall
        /\ ~pdLast.changed

\* a deleteTenant in transaction_mode for a tenant that is provisioned
C12_Witness ==
    /\ pdLast.mode = "transaction_mode"
    /\ pdLast.op = "deleteTenant"
    /\ pdLast.tenantId \in DOMAIN provSecrets
    /\ provSecrets[pdLast.tenantId].database \in pgDatabases

\* deleteTenant(t) succeeded in this step: the schema (Schema strategy) or the
\* database (Database strategy) of t's descriptor was dropped
ProvDeleteSucceeded(tenantId) ==
    /\ tenantId \in DOMAIN provSecrets
    /\ IF provStrategy = "schema"
       THEN provSecrets[tenantId].schema \in pgSchemas \ pgSchemas'
       ELSE provSecrets[tenantId].database \in pgDatabases \ pgDatabases'

(***************************************************************************)
(* C13: complete deprovisioning.  After a successful deleteTenant(t) the   *)
(* descriptor of t is gone and the schema or database and the login role   *)
(* that createTenant provisioned for t no longer exist.                    *)
(***************************************************************************)
C13_CompleteDeprovisioning ==
    [][\A t \in ProvTenants :
          ProvDeleteSucceeded(t) =>
              /\ t \notin DOMAIN provSecrets'
              /\ provSecrets[t].user \notin pgRoles'
              /\ getSchemaNameForTenant(t) \notin pgSchemas'
              /\ getDatabaseNameForTenant(t) \notin pgDatabases']_vars

(***************************************************************************)
(* C14: Redis ACL deleteTenant ordering.  The call deletes the tenant's    *)
(* keys, then removes the ACL user, then removes the stored descriptor:    *)
(* the ACL user is removed only when none of the keys that were under the  *)
(* tenant's prefix at the start of the call remains, and the descriptor    *)
(* is removed only after the call has removed the ACL user.                *)
(***************************************************************************)
C14_DeleteOrdering ==
    [][/\ \A t \in RedisTenantIds :
              (t \in DOMAIN redisAcl /\ t \notin DOMAIN redisAcl') =>
                  /\ raDelete.tenantId = t
                  /\ raDelete.pending = {}
       /\ \A t \in RedisTenantIds :
              (t \in DOMAIN redisSecrets /\ t \notin DOMAIN redisSecrets') =>
                  /\ raDelete.tenantId = t
                  /\ raDelete.pc = "remove"
                  /\ raDelete.pending = {}]_vars

\* a deleteTenant that found keys has removed them, the user and the descriptor
C14_Witness ==
    /\ raDelete.pc = "done"
    /\ raDelete.keys # {}
    /\ raDelete.tenantId \notin DOMAIN redisAcl
    /\ raDelete.tenantId \notin DOMAIN redisSecrets

(***************************************************************************)
(* C15: Redis ACL command restriction.  KEYS, FLUSHALL and FLUSHDB sent by *)
(* a tenant's client fail with a permission error exactly when the         *)
(* management instance that provisioned the tenant had                     *)
(* enableDangerousCommands false or unset.                                 *)
(***************************************************************************)
C15_DangerousCommands ==
    raLast.cmd # Null =>
        ((raLast.error = "NOPERM") <=> (raLast.provisionedWith # "true"))

\* a tenant provisioned without the option is denied FLUSHALL while another
\* tenant, provisioned with it, exists
C15_Witness ==
    /\ raLast.cmd = "FLUSHALL"
    /\ raLast.error = "NOPERM"
    /\ raLast.provisionedWith = Null
    /\ \E t \in DOMAIN raProvisionedWith : raProvisionedWith[t] = "true"

\* the tables of a list
RmListed(tableList) == {tableList[i] : i \in 1..Len(tableList)}

\* some table of the list carries tenant_isolation or tenant_insert
RmCarriesPolicy(tableList) ==
    \E t \in RmListed(tableList) :
        \/ isPolicyCreated(rmCatalog, t, "tenant_isolation")
        \/ isPolicyCreated(rmCatalog, t, "tenant_insert")

(***************************************************************************)
(* C16: RLS setup conflict.  A setup(tables) call on tables of which one   *)
(* already carries tenant_isolation or tenant_insert fails with the        *)
(* policy-conflict error and changes nothing: no policy is added, the      *)
(* role, the grants and the RLS flags are as before the call, and the      *)
(* policies of the earlier call are unchanged.                             *)
(***************************************************************************)
C16_SetupConflict ==
    [][(rmLast'.op = "setup" /\ RmCarriesPolicy(rmLast'.tables)) =>
           /\ rmLast'.error = "PolicyConflict"
           /\ rmRole' = rmRole
           /\ rmCatalog' = rmCatalog
           /\ \A t \in RmTables :
                 Cardinality({p \in rmCatalog'[t].policies :
                                 p.name = "tenant_isolation"}) <= 1]_vars

\* setup([T1, T2]) failed on T2, which an earlier call set up, and T1, which
\* the failed call had worked on, is untouched
C16_Witness ==
    /\ rmLast.op = "setup"
    /\ rmLast.error = "PolicyConflict"
    /\ rmLast.tables = <<"T1", "T2">>
    /\ rmCatalog["T2"].policies = createPoliciesOverTable
    /\ rmCatalog["T1"] = RmNoTable

(***************************************************************************)
(* C17: RLS auto-setup runs at most once.  For one management instance,    *)
(* whatever createTenant calls are made and however they interleave, the   *)
(* pass of auto-discovery followed by setup is executed at most once.      *)
(***************************************************************************)
C17_AutoSetupOnce == rmPasses <= 1

C20_PathCollisionFree ==
    spOut # SpNoPaths =>
        /\ spOut.p1 = spOut.p2 => (spIn.t1 = spIn.t2 /\ spIn.r1 = spIn.r2)
        /\ spOut.management = spOut.tenants

(***************************************************************************)
(* C21: missing or malformed descriptor.  As stated: whenever the secret   *)
(* store holds no descriptor for tenant t, or a value that does not        *)
(* decode, getClientFor(t) / queryAs(t) fails with the error of the        *)
(* lookup, returns no client, opens no connection, and this.pools has no   *)
(* entry for t afterwards.                                                 *)
(***************************************************************************)
C21_MissingDescriptor ==
    (gdLast.op \in GdOps /\ ~JsonParses(gdLast.stored)) =>
        /\ gdLast.error # Null
        /\ ~gdLast.client
        /\ gdLast.opened = "none"
        /\ ~gdPools[gdLast.tenantId]

(***************************************************************************)
(* C21, amended: a getClientFor(t) / queryAs(t) call that reads the        *)
(* descriptor (every call, except those of PostgresDatabaseTenants that    *)
(* find a pool for t in this.pools) and finds none, or a value that does   *)
(* not decode, fails with SecretNotFound / MalformedSecret, returns no     *)
(* client, opens no connection and leaves this.pools as it was: no entry   *)
(* is added for t.                                                         *)
(***************************************************************************)
C21_LookupFailure ==
    (gdLast.op \in GdOps /\ gdLast.read /\ ~JsonParses(gdLast.stored)) =>
        /\ gdLast.error = (IF gdLast.stored = GdAbsent THEN "SecretNotFound"
                           ELSE "MalformedSecret")
        /\ ~gdLast.client
        /\ gdLast.opened = "none"
        /\ gdPools[gdLast.tenantId] = gdLast.poolBefore
        /\ (gdVariant \in {"pgb_schema", "pgb_database", "redis_acl"}
               => ~gdPools[gdLast.tenantId])

\* a queryAs that read an undecodable value while a pool was cached
C21_Witness ==
    /\ gdLast.op = "queryAs"
    /\ gdLast.read
    /\ gdLast.stored = GdCutText
    /\ gdLast.error = "MalformedSecret"
    /\ gdLast.poolBefore

C28_PartialProvisioning ==
    LET t == dcLast.tenantId IN
    (dcLast.op = "createTenant" /\ dcLast.failedAt \in {"role", "store", "connect", "grants"}) =>
        /\ dcLast.error # Null
        /\ dcLast.database \in dcDatabases
        /\ dcLast.failedAt \in {"store", "connect", "grants"} => dcLast.role \in dcRoles
        /\ dcLast.failedAt \in {"connect", "grants"} =>
              /\ t \in DOMAIN dcSecrets
              /\ dcSecrets[t].database = dcLast.database
        /\ dcAdminOut = 0

\* a createTenant whose descriptor store failed: database and role are there
C28_Witness ==
    /\ dcLast.op = "createTenant"
    /\ dcLast.failedAt = "store"
    /\ dcLast.error # Null
    /\ dcLast.database \in dcDatabases
    /\ dcLast.role \in dcRoles
    /\ dcLast.tenantId \notin DOMAIN dcSecrets

(***************************************************************************)
(* C23: end() is idempotent.  On every Management and Tenants object, an   *)
(* end() (or end(tenantId)) call that repeats the call made just before    *)
(* it, which succeeded, succeeds too and changes nothing.                  *)
(***************************************************************************)
C23_EndIdempotent ==
    (enLast.op \in EnEndOps /\ enLast.repeat) =>
        /\ enLast.error = Null
        /\ enObjs = enLast.objsBefore
        /\ enMap = enLast.mapBefore

(***************************************************************************)
(* C24: pool separation.  The pool of the Management object is none of the *)
(* pools of the Tenants object; Management.end() leaves every tenant pool  *)
(* and this.pools as they were; Tenants.end() and end(tenantId) leave the  *)
(* Management pool as it was (usable when it was usable).                  *)
(***************************************************************************)
C24_PoolSeparation ==
    LET tenantPools == {enMap[t] : t \in EnTenants} \cup {enShared} IN
    /\ enAdmin \notin tenantPools
    /\ enLast.op = "Management.end" =>
          /\ enMap = enLast.mapBefore
          /\ \A i \in tenantPools \ {0} : enObjs[i] = enLast.objsBefore[i]
    /\ enLast.op \in {"Tenants.end", "Tenants.endTenant"} =>
          enObjs[enAdmin] = enLast.objsBefore[enAdmin]

\* Management.end() was called while a tenant had an open pool in the map,
\* and that pool is still open
C24_Witness ==
    \E t \in EnTenants :
        /\ enLast.op = "Management.end"
        /\ enLast.error = Null
        /\ enMap[t] # 0
        /\ ~enObjs[enMap[t]].ended
        /\ enObjs[enAdmin].ended

(***************************************************************************)
(* C25: Redis ACL createTenant repeated.  A createTenant(t) call for a     *)
(* tenant that exists already (ACL user and descriptor) does not throw,    *)
(* and afterwards the ACL user and the stored descriptor are those of this *)
(* call: its password, its command rules, nothing of the earlier setup.    *)
(***************************************************************************)
C25_CreateTenantRepeated ==
    LET t == rcLast.tenantId IN
    (rcLast.op = "createTenant" /\ rcLast.repeat) =>
        /\ rcLast.error = Null
        /\ t \in DOMAIN rcSecrets
        /\ rcSecrets[t].password = rcLast.password
        /\ rcUsers[t].dangerous = rcLast.dangerous
        /\ rcUsers[t].passwords = {rcLast.password}

(***************************************************************************)
(* C26: client release.  In every Postgres Tenants class, a queryAs or     *)
(* withClientFor call that got a client from getClientFor has released it  *)
(* exactly once when it returns or throws, whether the query or callback   *)
(* succeeded or failed; a call whose getClientFor threw releases nothing   *)
(* itself, so no client is released a second time.                         *)
(***************************************************************************)
C26_ClientRelease ==
    /\ ~crClient.doubleRelease
    /\ crCall.callerReleases + crCall.gcReleases <= 1
    /\ crCall.pc = "done" =>
          /\ crCall.obtained => (crCall.callerReleases = 1 /\ ~crClient.out)
          /\ ~crCall.obtained => crCall.callerReleases = 0

\* a withClientFor call in PgBouncer transaction_mode whose callback threw
C26_Witness ==
    /\ crVariant = "pgb_schema"
    /\ crMode = "transaction_mode"
    /\ crCall.op = "withClientFor"
    /\ crCall.pc = "done"
    /\ crCall.bodyFailed
    /\ crCall.callerReleases = 1

(***************************************************************************)
(* C27: Redis deleteTenant frame.  The DEL pipeline of deleteTenant(t)     *)
(* removes every key under t's prefix tenant:<t>: and leaves every key     *)
(* that another tenant id wrote as it is.                                  *)
(***************************************************************************)
C27_DeleteTenantFrame ==
    [][(raDelete.pc = "del" /\ raDelete'.pc = "deluser") =>
          /\ \A pk \in DOMAIN redisKeys' :
                ~IsPrefixOf(buildKeyspacePrefix(raDelete.tenantId), pk)
          /\ \A pk \in DOMAIN redisKeys :
                redisKeys[pk] # raDelete.tenantId =>
                    (pk \in DOMAIN redisKeys' /\ redisKeys'[pk] = redisKeys[pk])]_vars

(***************************************************************************)
(* C29: raw client in transaction_mode.  A client that getClientFor has    *)
(* returned in transaction_mode is in a transaction: BEGIN (and the        *)
(* transaction-local settings) were sent on it, neither COMMIT nor         *)
(* ROLLBACK, and it is not released.  getClientFor never sends COMMIT.     *)
(* When BEGIN or the settings fail, ROLLBACK is sent, the client is        *)
(* released and the error is thrown; no client is returned.                *)
(***************************************************************************)
C29_RawClientTransaction ==
    pgbMode = "transaction_mode" =>
        \A q \in PgbCalls :
            pgbCall[q].kind = "getClientFor" =>
                /\ pgbCall[q].pc = "returned" =>
                      /\ pgbCall[q].log = <<"BEGIN">> \o PgbSettingsStmts("SET_LOCAL")
                      /\ pgbConn[pgbCall[q].conn].txn = "open"
                      /\ pgbConn[pgbCall[q].conn].holder = q
                      /\ ~pgbCall[q].released
                /\ pgbCall[q].pc \in {"connected", "gcRollback", "returned"} =>
                      ~PgbRan(q, "COMMIT")
                /\ (pgbCall[q].pc = "done" /\ pgbCall[q].cause = "SettingsError") =>
                      /\ pgbCall[q].log = <<"BEGIN">> \o PgbSettingsStmts("SET_LOCAL")
                                              \o <<"ROLLBACK">>
                      /\ pgbCall[q].released
                      /\ ~pgbCall[q].returned
                      /\ pgbCall[q].delivered = "SettingsError"

\* a client was returned inside its open transaction while another
\* getClientFor failed at BEGIN and was rolled back
C29_Witness ==
    /\ pgbMode = "transaction_mode"
    /\ \E q1, q2 \in PgbCalls :
          /\ pgbCall[q1].kind = "getClientFor" /\ pgbCall[q1].pc = "returned"
          /\ pgbConn[pgbCall[q1].conn].txn = "open"
          /\ pgbCall[q2].kind = "getClientFor" /\ pgbCall[q2].pc = "done"
          /\ pgbCall[q2].cause = "SettingsError" /\ pgbCall[q2].released

(***************************************************************************)
(* C30: RLS autoSetup flag.  A createTenant call switches autoSetup off    *)
(* only when its auto-setup pass completed successfully: after a pass      *)
(* whose setup failed, autoSetup is still enabled, so the next createTenant *)
(* attempts the auto-setup again.                                          *)
(***************************************************************************)
C30_AutoSetupFlagKept ==
    (rmLast.op = "autoSetup" /\ rmLast.error # Null) => rmAutoSetup

(***************************************************************************)
(* C31: descriptor lookup on first use only.  A getClientFor / queryAs     *)
(* call of a Schema or Database Tenants object (plain or PgBouncer) for a  *)
(* tenant whose pool is in the pool map performs no secret-store read.     *)
(***************************************************************************)
C31_LookupOnFirstUseOnly ==
    (gdLast.op \in GdOps /\ gdVariant # "redis_acl" /\ gdLast.poolBefore)
        => ~gdLast.read

(***************************************************************************)
(* C32: Schema createTenant atomicity.  After a Schema createTenant(t) on  *)
(* a tenant that had nothing before the call: when the call failed, at     *)
(* whichever step, neither the schema nor the role of t exists and no      *)
(* descriptor of t is stored; when it succeeded, all three exist.          *)
(***************************************************************************)
C32_SchemaCreateAtomic ==
    (/\ fpStrategy = "schema"
     /\ fpLast.op = "createTenant"
     /\ fpLast.existsBefore = {}
     /\ ~fpLast.storedBefore)
        => IF fpLast.failedAt # "none"
           THEN fpExists[fpLast.tenantId] = {} /\ fpLast.tenantId \notin fpStored
           ELSE fpExists[fpLast.tenantId] = {"schema", "role"}
                /\ fpLast.tenantId \in fpStored

(***************************************************************************)
(* C36: descriptor / resource consistency.  For Schema, Database and Redis *)
(* ACL, between createTenant / deleteTenant calls (failed ones included),  *)
(* a tenant's descriptor is in the secret store if and only if all of the  *)
(* tenant's provisioned resources exist.                                   *)
(***************************************************************************)
C36_DescriptorIffResources ==
    \A t \in FpTenants :
        t \in fpStored <=> fpExists[t] = FpResources(fpStrategy)

(***************************************************************************)
(* C37: deleteTenant is retryable.  After a Database or Redis ACL          *)
(* deleteTenant(t) that failed, of a tenant whose descriptor was stored    *)
(* before the call, the descriptor of t is still in the secret store.      *)
(***************************************************************************)
C37_DeleteRetryable ==
    (/\ fpStrategy \in {"database", "redis_acl"}
     /\ fpLast.op = "deleteTenant"
     /\ fpLast.failedAt # "none"
     /\ fpLast.storedBefore)
        => fpLast.tenantId \in fpStored

C34_NoLeakInGetClientFor ==
    \A q \in PgbCalls :
        (/\ pgbCall[q].pc = "done"
         /\ pgbCall[q].conn # Null
         /\ ~pgbCall[q].returned
         /\ pgbCall[q].delivered \in {"SettingsError", "InvalidMode"})
            => /\ pgbCall[q].released
               /\ pgbConn[pgbCall[q].conn].holder # q

(***************************************************************************)
(* C35: no open transaction on release.  In transaction_mode every         *)
(* connection queryAs or withClientFor has released to the pool has had    *)
(* COMMIT or ROLLBACK issued after its BEGIN: no connection lies in the    *)
(* pool with a transaction open or aborted.                                *)
(***************************************************************************)
C35_NoOpenTransactionOnRelease ==
    rlsVariant = "transaction_mode" =>
        \A c \in RlsConns : rlsConn[c].pc = "idle" => rlsConn[c].txn = "none"

(***************************************************************************)
(* C38: no ended pool in the cache.  In the Schema and Database Tenants,   *)
(* after any sequence of getClientFor, end(tenantId) and end() calls,      *)
(* every pool held in the pool map is live, so the pool a getClientFor     *)
(* finds there has not been ended.                                         *)
(***************************************************************************)
C38_NoEndedPoolInMap ==
    tpVariant \in {"schema", "database"} =>
        \A t \in TpTenants : tpMap[t] # 0 => ~tpPools[tpMap[t]].ended

==============================================================================
